---- MODULE Spec2Model ----
(***************************************************************************)
(* A model of BaseRepository (src/src/core/base/repository.ts): the fluent *)
(* query session that compiles JSON predicates, include trees and select   *)
(* shapes into one joined query and folds the hydrated rows back into the  *)
(* requested shape.                                                        *)
(*                                                                         *)
(* JavaScript values are tagged records, so that the shape tests of the    *)
(* code (typeof, 'as' in value, key.startsWith('$')) are computed as the   *)
(* code computes them.  Strings are TLA+ strings: aliases and parameter    *)
(* names are built by concatenation and dotted paths are split on '.'.     *)
(***************************************************************************)
EXTENDS Naturals, Sequences, FiniteSets, TLC

(***************************************************************************)
(* JavaScript values                                                       *)
(***************************************************************************)
Undef == [t |-> "undefined"]
Null == [t |-> "null"]
B(b) == [t |-> "boolean", b |-> b]
N(n) == [t |-> "number", n |-> n]
S(s) == [t |-> "string", s |-> s]
\* an object is the ordered list of its own entries (insertion order)
O(es) == [t |-> "object", e |-> es]
A(xs) == [t |-> "array", e |-> xs]
KV(k, v) == [k |-> k, v |-> v]
True == B(TRUE)
EmptyObj == O(<<>>)

TypeOf(v) == IF v.t \in {"object", "array", "null"} THEN "object" ELSE v.t

Truthy(v) ==
  CASE v.t = "undefined" -> FALSE
    [] v.t = "null" -> FALSE
    [] v.t = "boolean" -> v.b
    [] v.t = "number" -> v.n # 0
    [] v.t = "string" -> v.s # ""
    [] OTHER -> TRUE

\* `${v}` for the scalar values the model uses
Str(v) ==
  CASE v.t = "string" -> v.s
    [] v.t = "number" -> ToString(v.n)
    [] v.t = "boolean" -> IF v.b THEN "true" ELSE "false"
    [] OTHER -> v.t

\* Object.entries(v): own entries of an object, index entries of an array or
\* of a string, none for a number or a boolean
Entries(v) ==
  CASE v.t = "object" -> v.e
    [] v.t = "array" -> [i \in 1..Len(v.e) |-> KV(ToString(i - 1), v.e[i])]
    [] v.t = "string" -> [i \in 1..Len(v.s) |-> KV(ToString(i - 1), S(SubSeq(v.s, i, i)))]
    [] OTHER -> <<>>

Keys(v) == [i \in 1..Len(Entries(v)) |-> Entries(v)[i].k]
KeySet(v) == {Entries(v)[i].k : i \in 1..Len(Entries(v))}

\* 'k' in v, for an object
Has(v, k) == v.t = "object" /\ k \in KeySet(v)

\* v[k]
Get(v, k) ==
  IF v.t \in {"object", "array"} /\ k \in KeySet(v)
  THEN Entries(v)[CHOOSE i \in 1..Len(Entries(v)) : Entries(v)[i].k = k].v
  ELSE Undef

\* v[k] = x on an object: an existing key keeps its place
Put(v, k, x) ==
  IF k \in KeySet(v)
  THEN O([i \in 1..Len(v.e) |-> IF v.e[i].k = k THEN KV(k, x) ELSE v.e[i]])
  ELSE O(Append(v.e, KV(k, x)))

RECURSIVE PutAll(_, _, _)
PutAll(v, es, i) == IF i > Len(es) THEN v ELSE PutAll(Put(v, es[i].k, es[i].v), es, i + 1)

\* {...a, ...b}; spreading undefined adds nothing
Spread(a, b) == PutAll(PutAll(EmptyObj, Entries(a), 1), Entries(b), 1)

\* the entries whose key is not in ks (object rest destructuring)
Rest(v, ks) == O(SelectSeq(Entries(v), LAMBDA e : e.k \notin ks))

(***************************************************************************)
(* Strings                                                                 *)
(***************************************************************************)
StartsWith(s, p) == Len(s) >= Len(p) /\ SubSeq(s, 1, Len(p)) = p

RECURSIVE SplitFrom(_, _, _)
SplitFrom(s, sep, acc) ==
  IF Len(s) = 0 THEN <<acc>>
  ELSE IF SubSeq(s, 1, 1) = sep THEN <<acc>> \o SplitFrom(SubSeq(s, 2, Len(s)), sep, "")
  ELSE SplitFrom(SubSeq(s, 2, Len(s)), sep, acc \o SubSeq(s, 1, 1))

\* s.split(sep), sep one character
Split(s, sep) == SplitFrom(s, sep, "")

RECURSIVE Join(_, _)
\* parts.join(sep)
Join(parts, sep) ==
  IF Len(parts) = 0 THEN ""
  ELSE IF Len(parts) = 1 THEN parts[1]
  ELSE parts[1] \o sep \o Join(Tail(parts), sep)

\* lodash get(obj, 'a.b.c')
RECURSIVE GetIn(_, _)
GetIn(v, ks) == IF Len(ks) = 0 THEN v ELSE GetIn(Get(v, ks[1]), Tail(ks))
GetPath(v, path) == GetIn(v, Split(path, "."))

\* lodash set(obj, 'a.b.c', x): objects are created on the way
RECURSIVE SetIn(_, _, _)
SetIn(v, ks, x) ==
  IF Len(ks) = 0 THEN x
  ELSE LET base == IF v.t = "object" THEN v ELSE EmptyObj
       IN Put(base, ks[1], SetIn(Get(base, ks[1]), Tail(ks), x))
SetPath(v, path, x) == SetIn(v, Split(path, "."), x)

\* a Record<string, V> that is only read by key
NoMap == [k \in {} |-> Undef]
MapPut(m, k, x) == [j \in DOMAIN m \cup {k} |-> IF j = k THEN x ELSE m[j]]

(***************************************************************************)
(* Errors a call can raise                                                 *)
(***************************************************************************)
NoError == [kind |-> "none"]
\* new Error(`Unsupported operator: ${op}`)
UnsupportedOperator(op) == [kind |-> "UnsupportedOperator", msg |-> "Unsupported operator: " \o op]
\* new Error(`Relation alias not found for ${relationPath}`)
RelationAliasNotFound(path) == [kind |-> "RelationAliasNotFound", msg |-> "Relation alias not found for " \o path]
\* new Error(`Columns are undefined for ${key}`)
ColumnsUndefined(key) == [kind |-> "ColumnsUndefined", msg |-> "Columns are undefined for " \o key]
\* new Error(`Relation '${part}' not found in entity '${name}'. Available relations: ${names}`)
RelationNotFound(part, entity, names) ==
  [kind |-> "RelationNotFound",
   msg |-> "Relation '" \o part \o "' not found in entity '" \o entity \o "'. Available relations: " \o names]
\* a TypeError of the runtime (a property of undefined, entries of null)
TypeError == [kind |-> "TypeError"]
\* the query builder refusing a join whose relation the metadata does not have
EngineError(property) == [kind |-> "EngineError", msg |-> property]
NoEntityFound == [kind |-> "NoEntityFound", msg |-> "No entity found"]
MultipleEntitiesFound == [kind |-> "MultipleEntitiesFound", msg |-> "Multiple entities found"]

(***************************************************************************)
(* Entity metadata of the schema the session runs against                  *)
(***************************************************************************)
\* entity.name of the repository's entity
EntityName == "User"
\* metadata.tableName of that entity
TableName == "users"
Relations ==
  [e \in {"User", "Post", "Profile", "Image", "?"} |->
     CASE e = "User" -> [r \in {"posts", "profile", "profile_image"} |->
                            CASE r = "posts" -> "Post" [] r = "profile" -> "Profile" [] OTHER -> "Image"]
       [] e = "Post" -> [r \in {"author"} |-> "User"]
       [] e = "Profile" -> [r \in {"image", "cover"} |-> "Image"]
       [] OTHER -> [r \in {} |-> "?"]]

\* name.toLowerCase() for the entity names of the schema
ToLowerCase(name) ==
  CASE name = "User" -> "user" [] name = "Post" -> "post"
    [] name = "Profile" -> "profile" [] name = "Image" -> "image" [] OTHER -> name

(***************************************************************************)
(* The query builder: what the session hands to the engine                 *)
(***************************************************************************)
\* repository.createQueryBuilder(alias)
createQueryBuilder(alias) ==
  [alias |-> alias, joins |-> <<>>, wheres |-> <<>>, parameters |-> NoMap,
   orderBys |-> <<>>, skip |-> Undef, take |-> Undef, selects |-> <<>>]

\* a join check that never finds the alias
joinExistsNever(qb, alias) == FALSE

\* expressionMap.joinAttributes.some(join => join.alias?.name === alias)
joinExists(qb, alias) == \E i \in 1..Len(qb.joins) : qb.joins[i].alias = alias

\* the entity an alias of the query stands for
EntityOfAlias(qb, alias) ==
  IF alias = qb.alias THEN EntityName
  ELSE IF joinExists(qb, alias)
       THEN qb.joins[CHOOSE i \in 1..Len(qb.joins) : qb.joins[i].alias = alias].entity
       ELSE "?"

\* the relation `${parentAlias}.${part}` names, "?" when the metadata has none
RelationTarget(qb, property) ==
  LET ps == Split(property, ".")
      owner == EntityOfAlias(qb, ps[1])
      part == Join(Tail(ps), ".")
  IN IF part \in DOMAIN Relations[owner] THEN Relations[owner][part] ELSE "?"

\* leftJoin / leftJoinAndSelect(property, alias)
leftJoin(qb, property, alias, andSelect) ==
  [qb EXCEPT !.joins = Append(@, [property |-> property, alias |-> alias,
                                   select |-> andSelect, entity |-> RelationTarget(qb, property)])]

\* whether the query builder takes the join: it raises for a relation the
\* metadata of the owning entity does not have
JoinAccepted(qb, property) == RelationTarget(qb, property) # "?"

(***************************************************************************)
(* Alias registry and relation resolver                                    *)
(***************************************************************************)
\* createAutomaticJoin's loop over pathParts, from part i on.  st carries the
\* registry (aliases), the query builder (qb) and the error raised so far.
RECURSIVE AutoJoinFrom(_, _, _, _, _)
AutoJoinFrom(pathParts, i, currentJoinAlias, builtPath, st) ==
  IF i > Len(pathParts) THEN [st |-> st, alias |-> currentJoinAlias]
  ELSE LET part == pathParts[i]
           built == IF builtPath # "" THEN builtPath \o "." \o part ELSE part
       IN IF built \in DOMAIN st.aliases
          THEN AutoJoinFrom(pathParts, i + 1, st.aliases[built].alias, built, st)
          ELSE LET targetAlias == st.qb.alias \o "_" \o Join(SubSeq(pathParts, 1, i), "_")
                   property == currentJoinAlias \o "." \o part
               IN IF ~joinExists(st.qb, targetAlias) /\ ~JoinAccepted(st.qb, property)
                  THEN [st |-> [st EXCEPT !.err = EngineError(property)], alias |-> currentJoinAlias]
                  ELSE LET q1 == IF joinExists(st.qb, targetAlias) THEN st.qb
                                 ELSE leftJoin(st.qb, property, targetAlias, FALSE)
                           s1 == [st EXCEPT !.qb = q1,
                                            !.aliases = MapPut(@, built, [alias |-> targetAlias, path |-> built])]
                       IN AutoJoinFrom(pathParts, i + 1, targetAlias, built, s1)

\* a createAutomaticJoin that joins and registers the whole path in one step
createAutomaticJoinWhole(fullPath, currentAlias, st) ==
  IF fullPath \in DOMAIN st.aliases
  THEN [st |-> st, alias |-> st.aliases[fullPath].alias]
  ELSE LET pathParts == Split(fullPath, ".")
           n == Len(pathParts)
           targetAlias == st.qb.alias \o "_" \o Join(pathParts, "_")
           parentAlias == IF n = 1 THEN currentAlias
                          ELSE st.qb.alias \o "_" \o Join(SubSeq(pathParts, 1, n - 1), "_")
           q1 == IF joinExists(st.qb, targetAlias) THEN st.qb
                 ELSE leftJoin(st.qb, parentAlias \o "." \o pathParts[n], targetAlias, FALSE)
       IN [st |-> [st EXCEPT !.qb = q1,
                             !.aliases = MapPut(@, fullPath, [alias |-> targetAlias, path |-> fullPath])],
           alias |-> targetAlias]

createAutomaticJoin(fullPath, currentAlias, st) ==
  IF fullPath \in DOMAIN st.aliases
  THEN [st |-> st, alias |-> st.aliases[fullPath].alias]
  ELSE AutoJoinFrom(Split(fullPath, "."), 1, currentAlias, "", st)

(***************************************************************************)
(* Predicate compiler                                                      *)
(***************************************************************************)
\* the operators of walkField's switch that bind the value as it is
PlainOperators ==
  [op \in {"$eq", "$ne", "$lt", "$lte", "$gt", "$gte", "$matches"} |->
     CASE op = "$eq" -> "=" [] op = "$ne" -> "!=" [] op = "$lt" -> "<" [] op = "$lte" -> "<="
       [] op = "$gt" -> ">" [] op = "$gte" -> ">=" [] OTHER -> "~"]
ListOperators == [op \in {"$in", "$notIn"} |-> IF op = "$in" THEN "IN" ELSE "NOT IN"]
\* the pattern operators: SQL operator, prefix and suffix of the bound value
LikeOperators ==
  [op \in {"$like", "$iLike", "$notLike", "$notILike", "$contains", "$startsWith", "$endsWith"} |->
     CASE op = "$like" -> <<"LIKE", "%", "%">> [] op = "$iLike" -> <<"ILIKE", "%", "%">>
       [] op = "$notLike" -> <<"NOT LIKE", "%", "%">> [] op = "$notILike" -> <<"NOT ILIKE", "%", "%">>
       [] op = "$contains" -> <<"LIKE", "%", "%">> [] op = "$startsWith" -> <<"LIKE", "", "%">>
       [] OTHER -> <<"LIKE", "%", "">>]

\* the keys walkField's switch has a case for
OperatorTokens ==
  DOMAIN PlainOperators \cup DOMAIN ListOperators \cup DOMAIN LikeOperators
    \cup {"$or", "$between", "$isNull", "$isNotNull"}

\* a switch that renders the comparison and binds nothing
walkFieldCaseUnbound(op, value, column, paramKey) ==
  IF op \in DOMAIN PlainOperators
  THEN [err |-> NoError, text |-> column \o " " \o PlainOperators[op] \o " :" \o paramKey, binds |-> <<>>]
  ELSE [err |-> UnsupportedOperator(op), text |-> "", binds |-> <<>>]

\* one case of walkField's switch other than '$or': the text and the bindings
walkFieldCase(op, value, column, paramKey) ==
  CASE op \in DOMAIN PlainOperators ->
         [err |-> NoError, text |-> column \o " " \o PlainOperators[op] \o " :" \o paramKey,
          binds |-> <<KV(paramKey, value)>>]
    [] op \in DOMAIN ListOperators ->
         [err |-> NoError, text |-> column \o " " \o ListOperators[op] \o " (:..." \o paramKey \o ")",
          binds |-> <<KV(paramKey, value)>>]
    [] op = "$between" ->
         [err |-> NoError,
          text |-> column \o " BETWEEN :" \o paramKey \o "_start AND :" \o paramKey \o "_end",
          binds |-> <<KV(paramKey \o "_start", Get(value, "0")), KV(paramKey \o "_end", Get(value, "1"))>>]
    [] op \in DOMAIN LikeOperators ->
         [err |-> NoError, text |-> column \o " " \o LikeOperators[op][1] \o " :" \o paramKey,
          binds |-> <<KV(paramKey, S(LikeOperators[op][2] \o Str(value) \o LikeOperators[op][3]))>>]
    [] op = "$isNull" -> [err |-> NoError, text |-> column \o " IS NULL", binds |-> <<>>]
    [] op = "$isNotNull" -> [err |-> NoError, text |-> column \o " IS NOT NULL", binds |-> <<>>]
    [] OTHER -> [err |-> UnsupportedOperator(op), text |-> "", binds |-> <<>>]

RECURSIVE BindAll(_, _, _)
BindAll(params, binds, i) ==
  IF i > Len(binds) THEN params ELSE BindAll(MapPut(params, binds[i].k, binds[i].v), binds, i + 1)

\* a parameter name numbered by the position of the entry in its own object
paramKeyLocal(field, index, idx) == field \o "_" \o ToString(idx)

\* const paramKey = `${field}_${index++}`: index is the counter of the pass,
\* idx the position of the entry in its object
paramKeyOf(field, index, idx) == field \o "_" \o ToString(index)

\* walkField: Object.entries(conditions).map(...).join(' AND '); st.text is
\* the returned text, st.index the shared counter, st.params the bindings
RECURSIVE walkFieldFrom(_, _, _, _, _, _)
RECURSIVE walkFieldOr(_, _, _, _, _, _)
walkFieldFrom(field, es, i, currentAlias, st, parts) ==
  IF st.err # NoError THEN st
  ELSE IF i > Len(es) THEN [st EXCEPT !.text = Join(parts, " AND ")]
  ELSE LET op == es[i].k
           value == es[i].v
           paramKey == paramKeyOf(field, st.index, i - 1)
           column == currentAlias \o "." \o field
           s1 == [st EXCEPT !.index = @ + 1]
       IN IF op = "$or"
          THEN LET r == walkFieldOr(field, Entries(value), 1, currentAlias, s1, <<>>)
               IN walkFieldFrom(field, es, i + 1, currentAlias, r, Append(parts, r.text))
          ELSE LET c == walkFieldCase(op, value, column, paramKey)
                   r == [s1 EXCEPT !.err = c.err, !.params = BindAll(@, c.binds, 1)]
               IN walkFieldFrom(field, es, i + 1, currentAlias, r, Append(parts, c.text))

walkField(field, conditions, currentAlias, st) ==
  walkFieldFrom(field, Entries(conditions), 1, currentAlias, st, <<>>)

\* case '$or' of walkField: each comparison of the list against the same field
walkFieldOr(field, items, i, currentAlias, st, parts) ==
  IF st.err # NoError THEN st
  ELSE IF i > Len(items) THEN [st EXCEPT !.text = "(" \o Join(parts, " OR ") \o ")"]
  ELSE LET r == walkField(field, items[i].v, currentAlias, st)
       IN walkFieldOr(field, items, i + 1, currentAlias, r, Append(parts, r.text))

\* the test of walk for "this key names a relation"
IsRelationReference(conditions) ==
  /\ TypeOf(conditions) = "object"
  /\ conditions.t # "null"
  /\ ~\E k \in KeySet(conditions) : StartsWith(k, "$")

RECURSIVE walk(_, _, _, _)
RECURSIVE walkList(_, _, _, _, _, _, _)
RECURSIVE walkEntries(_, _, _, _, _, _)
walk(expr, currentAlias, path, st) ==
  IF st.err # NoError THEN st
  ELSE IF Has(expr, "$or") /\ Truthy(Get(expr, "$or"))
  THEN walkList(Entries(Get(expr, "$or")), 1, " OR ", currentAlias, path, st, <<>>)
  ELSE IF Has(expr, "$and") /\ Truthy(Get(expr, "$and"))
  THEN walkList(Entries(Get(expr, "$and")), 1, " AND ", currentAlias, path, st, <<>>)
  ELSE walkEntries(Entries(expr), 1, currentAlias, path, st, <<>>)

\* the '$or' / '$and' branches of walk
walkList(items, i, sep, currentAlias, path, st, parts) ==
  IF st.err # NoError THEN st
  ELSE IF i > Len(items) THEN [st EXCEPT !.text = "(" \o Join(parts, sep) \o ")"]
  ELSE LET r == walk(items[i].v, currentAlias, path, st)
       IN walkList(items, i + 1, sep, currentAlias, path, r, Append(parts, r.text))

\* Object.entries(expr).map(...).filter(Boolean).join(' AND ')
walkEntries(es, i, currentAlias, path, st, parts) ==
  IF st.err # NoError THEN st
  ELSE IF i > Len(es)
  THEN [st EXCEPT !.text = Join(SelectSeq(parts, LAMBDA p : p # ""), " AND ")]
  ELSE LET field == es[i].k
           conditions == es[i].v
           fullPath == IF path # "" THEN path \o "." \o field ELSE field
       IN IF IsRelationReference(conditions)
          THEN LET j == IF fullPath \in DOMAIN st.aliases
                        THEN [st |-> st, alias |-> st.aliases[fullPath].alias]
                        ELSE createAutomaticJoin(fullPath, currentAlias, st)
                   r == walk(conditions, j.alias, fullPath, j.st)
               IN walkEntries(es, i + 1, currentAlias, path, r, Append(parts, r.text))
          ELSE LET r == walkField(field, conditions, currentAlias, st)
               IN walkEntries(es, i + 1, currentAlias, path, r, Append(parts, r.text))

\* parseJsonPredicate(predicate, alias): params and index start empty; the
\* joins and registry entries it makes are made on the session
parseJsonPredicate(predicate, alias, aliases, qb) ==
  walk(predicate, alias, "",
       [aliases |-> aliases, qb |-> qb, err |-> NoError,
        params |-> NoMap, index |-> 0, text |-> ""])

(***************************************************************************)
(* Projection planner                                                      *)
(***************************************************************************)
\* addInclude: st carries the registry (aliases), the query builder (qb) and
\* the error raised so far
RECURSIVE addIncludeFrom(_, _, _, _, _)
addIncludeFrom(es, i, parentAlias, parentPath, st) ==
  IF st.err # NoError \/ i > Len(es) THEN st
  ELSE LET key == es[i].k
           value == es[i].v
           propertyPath == IF parentPath # "" THEN parentPath \o "." \o key ELSE key
           column == parentAlias \o "." \o key
           as == Get(value, "as")
           include == Get(value, "include")
           relationAlias == IF TypeOf(value) = "object" /\ Truthy(as) THEN as.s
                            ELSE parentAlias \o "_" \o key
       IN IF ~joinExists(st.qb, relationAlias) /\ ~JoinAccepted(st.qb, column)
          THEN [st EXCEPT !.err = EngineError(column)]
          ELSE LET q1 == IF joinExists(st.qb, relationAlias) THEN st.qb
                         ELSE leftJoin(st.qb, column, relationAlias, TRUE)
                   s1 == [st EXCEPT !.qb = q1,
                                    !.aliases = MapPut(@, propertyPath,
                                                       [alias |-> relationAlias, path |-> propertyPath])]
                   s2 == IF TypeOf(value) = "object" /\ Truthy(include)
                         THEN addIncludeFrom(Entries(include), 1, relationAlias, propertyPath, s1)
                         ELSE s1
               IN addIncludeFrom(es, i + 1, parentAlias, parentPath, s2)

addInclude(data, parentAlias, parentPath, st) ==
  addIncludeFrom(Entries(data), 1, parentAlias, parentPath, st)

\* filterSelectedRelationColumnsUndefined: the error it raises, if any
RECURSIVE filterSelectedRelationColumnsUndefined(_)
RECURSIVE ColumnsCheckFrom(_, _)
ColumnsCheckFrom(es, i) ==
  IF i > Len(es) THEN NoError
  ELSE LET value == es[i].v
           rest == Rest(value, {"columns", "path", "alias"})
           below == IF Len(Entries(rest)) > 0 THEN filterSelectedRelationColumnsUndefined(rest)
                    ELSE NoError
       IN IF ~Truthy(Get(value, "columns")) THEN ColumnsUndefined(es[i].k)
          ELSE IF below # NoError THEN below
          ELSE ColumnsCheckFrom(es, i + 1)

filterSelectedRelationColumnsUndefined(columnsData) == ColumnsCheckFrom(Entries(columnsData), 1)

\* queryBuilder.addSelect(selection, alias)
qbAddSelect(qb, selection, alias) ==
  [qb EXCEPT !.selects = Append(@, [selection |-> selection, alias |-> alias])]

\* a lookup that falls back to an alias of its own for an unregistered path
relationAliasOrDefault(aliases, relationPath) ==
  IF relationPath \in DOMAIN aliases
  THEN [found |-> TRUE, alias |-> aliases[relationPath].alias, path |-> aliases[relationPath].path]
  ELSE [found |-> TRUE, alias |-> relationPath, path |-> relationPath]

\* a lookup that answers with the generated alias of a registered path
relationAliasGenerated(aliases, relationPath) ==
  IF relationPath \in DOMAIN aliases
  THEN [found |-> TRUE, alias |-> TableName \o "_" \o relationPath, path |-> aliases[relationPath].path]
  ELSE [found |-> FALSE, alias |-> "", path |-> ""]

\* this.relationAliases[relationPath] as addSelect reads it
relationAliasOf(aliases, relationPath) ==
  IF relationPath \in DOMAIN aliases
  THEN [found |-> TRUE, alias |-> aliases[relationPath].alias, path |-> aliases[relationPath].path]
  ELSE [found |-> FALSE, alias |-> "", path |-> ""]

\* the relation node addSelect writes for a relation-valued key
RelationNode(base, relationAlias) ==
  Put(Put(Put(base, "alias", S(relationAlias.alias)), "columns", A(<<>>)), "path", S(relationAlias.path))

\* addSelect: st carries the registry (aliases, read only), the query builder
\* (qb), selectedColumns (cols), selectedRelationColumns (rel) and the error
RECURSIVE addSelectFrom(_, _, _, _, _)
addSelectFrom(es, i, parentAlias, relationKey, st) ==
  IF st.err # NoError \/ i > Len(es) THEN st
  ELSE LET key == es[i].k
           value == es[i].v
           relationPath == IF relationKey # "" THEN relationKey \o "." \o key ELSE key
           done ==
             IF TypeOf(value) = "object"
             THEN IF Has(value, "as")
                  THEN LET as == Get(value, "as")
                           sel == qbAddSelect(st.qb, parentAlias \o "." \o key, Str(as))
                       IN IF relationKey # ""
                          THEN LET existingAlias == GetPath(st.rel, relationKey)
                                   columns == Put(Spread(IF Truthy(existingAlias)
                                                         THEN Get(existingAlias, "columns") ELSE EmptyObj,
                                                         EmptyObj),
                                                  key, O(<<KV("alias", as)>>))
                                   newAlias == Put(Spread(IF Truthy(existingAlias) THEN existingAlias
                                                          ELSE EmptyObj, EmptyObj),
                                                   "columns", columns)
                               IN [st EXCEPT !.rel = SetPath(@, relationKey, newAlias), !.qb = sel]
                          ELSE [st EXCEPT !.cols = SetPath(@, key, O(<<KV("alias", as)>>)), !.qb = sel]
                  ELSE IF ~relationAliasOf(st.aliases, relationPath).found
                  THEN [st EXCEPT !.err = RelationAliasNotFound(relationPath)]
                  ELSE LET relationAlias == relationAliasOf(st.aliases, relationPath)
                           path == relationAlias.path
                           pathSplit == Split(path, ".")
                           parent == Join(SubSeq(pathSplit, 1, Len(pathSplit) - 1), ".")
                           selectedRelationColumn == GetPath(st.rel, parent)
                           rel1 ==
                             IF Len(pathSplit) > 1
                             THEN IF Truthy(selectedRelationColumn)
                                  THEN SetPath(st.rel, parent,
                                               SetPath(selectedRelationColumn, key,
                                                       RelationNode(Spread(selectedRelationColumn, EmptyObj),
                                                                    relationAlias)))
                                  ELSE SetPath(st.rel, parent,
                                               O(<<KV(key, RelationNode(EmptyObj, relationAlias))>>))
                             ELSE SetPath(st.rel, path, RelationNode(EmptyObj, relationAlias))
                       IN addSelectFrom(Entries(value), 1, relationAlias.alias, path,
                                        [st EXCEPT !.rel = rel1])
             ELSE IF value = True /\ relationKey = ""
             THEN [st EXCEPT !.cols = SetPath(@, key, True),
                             !.qb = qbAddSelect(@, parentAlias \o "." \o key, parentAlias \o "_" \o key)]
             ELSE IF value = True
             THEN LET relationAlias == GetPath(st.rel, relationKey)
                  IN IF relationAlias.t \in {"undefined", "null"}
                     THEN [st EXCEPT !.err = TypeError]
                     ELSE [st EXCEPT
                             !.rel = SetPath(@, relationKey,
                                             O(<<KV("alias", Get(relationAlias, "alias")),
                                                 KV("columns", Put(Spread(Get(relationAlias, "columns"), EmptyObj),
                                                                   key, True)),
                                                 KV("path", Get(relationAlias, "path"))>>)),
                             !.qb = qbAddSelect(@, parentAlias \o "." \o key, parentAlias \o "_" \o key)]
             ELSE st
           check == filterSelectedRelationColumnsUndefined(done.rel)
           checked == IF done.err = NoError /\ check # NoError THEN [done EXCEPT !.err = check] ELSE done
       IN addSelectFrom(es, i + 1, parentAlias, relationKey, checked)

addSelect(data, parentAlias, relationKey, st) ==
  addSelectFrom(Entries(data), 1, parentAlias, relationKey, st)

(***************************************************************************)
(* Result materializer                                                     *)
(***************************************************************************)
RECURSIVE processRelationData(_, _, _)
RECURSIVE ProcessColumns(_, _, _, _)
RECURSIVE ProcessNested(_, _, _, _)

\* "Add selected columns"
ProcessColumns(item, cs, i, result) ==
  IF i > Len(cs) THEN result
  ELSE LET col == cs[i].k
           realValue == cs[i].v
           name == IF TypeOf(realValue) = "object" THEN Str(Get(realValue, "alias")) ELSE col
       IN ProcessColumns(item, cs, i + 1,
                         IF Get(item, col) # Undef THEN Put(result, name, Get(item, col)) ELSE result)

\* "Process nested relations"
ProcessNested(item, rs, i, result) ==
  IF i > Len(rs) THEN result
  ELSE LET nestedKey == rs[i].k
           nestedValue == rs[i].v
           alias == Get(nestedValue, "alias")
           name == IF Truthy(alias) THEN Str(alias) ELSE nestedKey
           nested == processRelationData(Get(item, nestedKey), Get(nestedValue, "columns"),
                                         Rest(nestedValue, {"columns", "path", "alias"}))
       IN ProcessNested(item, rs, i + 1,
                        IF Truthy(Get(item, nestedKey)) THEN Put(result, name, nested) ELSE result)

processRelationData(item, columns, rest) ==
  IF ~Truthy(item) THEN Null
  ELSE IF item.t = "array"
  THEN A([i \in 1..Len(item.e) |-> processRelationData(item.e[i], columns, rest)])
  ELSE LET picked == ProcessColumns(item, Entries(columns), 1, EmptyObj)
           nested == ProcessNested(item, Entries(rest), 1, picked)
       IN IF Len(Entries(columns)) = 0 /\ Len(Entries(rest)) = 0
          THEN PutAll(nested, Entries(item), 1)
          ELSE nested

\* mapRelationColumns: result is written entry by entry; when result is the
\* row object itself (same), the row is what is written and read
RECURSIVE mapRelationColumnsFrom(_, _, _, _, _)
mapRelationColumnsFrom(data, es, i, result, same) ==
  IF i > Len(es) THEN [result |-> result, data |-> IF same THEN result ELSE data, same |-> same]
  ELSE LET key == es[i].k
           value == es[i].v
           path == Get(value, "path")
           alias == Get(value, "alias")
           row == IF same THEN result ELSE data
           existingData == GetPath(row, IF Truthy(path) THEN Str(path) ELSE key)
           name == IF Truthy(alias) THEN Str(alias) ELSE key
           mapped == processRelationData(existingData, Get(value, "columns"),
                                         Rest(value, {"columns", "path", "alias"}))
       IN mapRelationColumnsFrom(data, es, i + 1,
                                 IF Truthy(existingData) THEN Put(result, name, mapped) ELSE result,
                                 same)

mapRelationColumns(data, columnsData, result, same) ==
  mapRelationColumnsFrom(data, Entries(columnsData), 1, result, same)

\* the loop of filterSelectedColumns over selectedColumns
RECURSIVE PickColumns(_, _, _, _)
PickColumns(data, cs, i, result) ==
  IF i > Len(cs) THEN result
  ELSE LET key == cs[i].k
           realValue == cs[i].v
           name == IF TypeOf(realValue) = "boolean" THEN key ELSE Str(Get(realValue, "alias"))
       IN PickColumns(data, cs, i + 1, Put(result, name, GetPath(data, key)))

\* a materialization that always starts from the picked columns
filterSelectedColumnsPicked(data, selectedCols, selectedRel) ==
  mapRelationColumns(data, selectedRel, PickColumns(data, Entries(selectedCols), 1, EmptyObj), FALSE)

\* filterSelectedColumns(data): the returned object (result), the row after
\* the call (data) and whether the two are one object (same)
filterSelectedColumns(data, selectedCols, selectedRel) ==
  LET same == Len(Entries(selectedCols)) = 0
      result == IF same THEN data ELSE PickColumns(data, Entries(selectedCols), 1, EmptyObj)
  IN mapRelationColumns(data, selectedRel, result, same)

(***************************************************************************)
(* The engine: the rows a query returns, hydrated along its selected joins *)
(***************************************************************************)
\* the stored entity graph the queries run against
Database ==
  <<O(<<KV("id", N(1)), KV("name", S("ann")),
        KV("posts", A(<<O(<<KV("id", N(10)), KV("title", S("t1"))>>),
                        O(<<KV("id", N(11)), KV("title", S("t2"))>>)>>)),
        KV("profile", O(<<KV("bio", S("b")), KV("image", O(<<KV("url", S("i"))>>))>>)),
        KV("profile_image", O(<<KV("url", S("p"))>>))>>),
    O(<<KV("id", N(2)), KV("name", S("bob")),
        KV("posts", A(<<>>)), KV("profile", Null), KV("profile_image", Null)>>)>>

\* a row as getMany hands it over: the columns of the entity, and a relation
\* only where a join of the query selects it
RECURSIVE Hydrate(_, _, _, _)
Hydrate(value, entity, alias, qb) ==
  IF value.t = "array" THEN A([i \in 1..Len(value.e) |-> Hydrate(value.e[i], entity, alias, qb)])
  ELSE IF value.t # "object" THEN value
  ELSE LET joined(k) == {j \in 1..Len(qb.joins) :
                            qb.joins[j].select /\ qb.joins[j].property = alias \o "." \o k}
           kept == SelectSeq(value.e, LAMBDA e : e.k \notin DOMAIN Relations[entity] \/ joined(e.k) # {})
       IN O([i \in 1..Len(kept) |->
               IF kept[i].k \in DOMAIN Relations[entity]
               THEN KV(kept[i].k,
                       Hydrate(kept[i].v, Relations[entity][kept[i].k],
                               qb.joins[CHOOSE j \in joined(kept[i].k) : TRUE].alias, qb))
               ELSE kept[i]])

\* the row lists getMany may return for the query (the filter is the engine's)
EngineRows(qb) ==
  LET h(i) == Hydrate(Database[i], EntityName, qb.alias, qb)
  IN {<<>>, <<h(1)>>, <<h(2)>>, <<h(1), h(2)>>}

(***************************************************************************)
(* The calls the model makes                                               *)
(***************************************************************************)
\* {f: {op: v}}
Cmp(f, op, v) == O(<<KV(f, O(<<KV(op, v)>>))>>)
\* {r: p}
In(r, p) == O(<<KV(r, p)>>)

IncludeInputs ==
  { O(<<KV("posts", True)>>),
    O(<<KV("posts", O(<<KV("as", S("p"))>>))>>),
    O(<<KV("profile", O(<<KV("include", O(<<KV("image", True)>>))>>)), KV("profile_image", True)>>),
    O(<<KV("profile", O(<<KV("as", S("users_posts"))>>)), KV("posts", True)>>),
    O(<<KV("posts", O(<<KV("include", O(<<KV("tags", True)>>))>>))>>) }

WhereInputs ==
  { Cmp("name", "$eq", S("John")),
    O(<<KV("$and", A(<<Cmp("age", "$gte", N(18)), Cmp("age", "$lt", N(65))>>))>>),
    O(<<KV("$or", A(<<Cmp("name", "$like", S("a")), Cmp("age", "$between", A(<<N(1), N(2)>>))>>))>>),
    In("posts", Cmp("published", "$eq", True)),
    In("profile", In("image", Cmp("url", "$isNull", True))),
    In("profile_image", Cmp("url", "$ne", S("x"))),
    Cmp("name", "foo", N(1)),
    Cmp("name", "$foo", N(1)),
    O(<<KV("name", O(<<KV("$eq", S("a")), KV("bar", N(2))>>))>>),
    In("posts", Cmp("title", "$foo", N(1))),
    In("posts", In("tags", Cmp("name", "$eq", S("x")))),
    O(<<KV("$or", A(<<Cmp("age", "$gte", N(18))>>)), KV("name", O(<<KV("$foo", N(1))>>))>>) }

SelectInputs ==
  { O(<<KV("name", True)>>),
    O(<<KV("id", O(<<KV("as", S("key"))>>))>>),
    O(<<KV("name", True), KV("posts", O(<<KV("title", O(<<KV("as", S("postTitle"))>>))>>))>>),
    O(<<KV("posts", O(<<KV("title", True)>>))>>),
    O(<<KV("profile", O(<<KV("bio", True), KV("image", O(<<KV("url", True)>>))>>))>>),
    O(<<KV("profile", O(<<KV("image", O(<<KV("url", True)>>))>>))>>) }

OrderKeys == {"name"}
SkipCounts == {10}
TakeCounts == {5}

\* builder calls the model makes between two terminal calls
MaxCalls == 2

(***************************************************************************)
(* The session                                                             *)
(***************************************************************************)
VARIABLES
  queryBuilder,             \* this.queryBuilder
  relationAliases,          \* this.relationAliases
  selectedColumns,          \* this.selectedColumns
  selectedRelationColumns,  \* this.selectedRelationColumns
  outcome,                  \* the last call: its name, what it raised, what it returned
  calls,                    \* builder calls since the last terminal call
  requested,                \* what the builder calls since the last terminal call asked for
  budget,                   \* builder calls the session makes between two terminal calls
  awaiting,                 \* the terminal call that waits for the engine's answer
  predicate,                \* the predicate handed to one compilation pass
  compiled,                 \* what that pass returned
  context,                  \* the DbContext: its query runner and the stored entities
  request                   \* the request withTransaction handles

session == <<queryBuilder, relationAliases, selectedColumns, selectedRelationColumns,
             outcome, calls, requested, budget, awaiting>>
compilation == <<predicate, compiled>>
ambient == <<context, request>>
vars == <<session, compilation, ambient>>

\* a call: its name and argument, the error it raised, the value it returned
\* and, for a terminal call, the rows the engine answered with
Outcome(op, arg, err, value, rows) == [op |-> op, arg |-> arg, err |-> err, value |-> value, rows |-> rows]
NothingRequested ==
  [orderBys |-> <<>>, skip |-> Undef, take |-> Undef, wheres |-> <<>>, columns |-> {}, included |-> {}]
NotAwaiting == [op |-> "none"]
NotCompiled == [done |-> FALSE, text |-> "", params |-> NoMap, err |-> NoError]

\* queryBuilder.where(text, params): the condition replaces the earlier one
\* (an empty text is no condition), the parameters are added
qbWhere(qb, text, params) ==
  [qb EXCEPT !.wheres = IF text # "" THEN <<text>> ELSE <<>>,
             !.parameters = [k \in DOMAIN @ \cup DOMAIN params |->
                               IF k \in DOMAIN params THEN params[k] ELSE @[k]]]

\* an addOrderBy that puts the new pair in front of the earlier ones
addOrderByFirst(qb, sort, order) == [qb EXCEPT !.orderBys = <<[sort |-> sort, order |-> order]>> \o @]

\* queryBuilder.addOrderBy(sort, order)
addOrderBy(qb, sort, order) == [qb EXCEPT !.orderBys = Append(@, [sort |-> sort, order |-> order])]

\* the alias resetQueryBuilder gives the fresh query builder
ResetAlias == IF TableName # "" THEN TableName ELSE ToLowerCase(EntityName)

\* a reset that forgets to clear the alias registry
resetKeepingAliases ==
  [qb |-> createQueryBuilder(ResetAlias), aliases |-> relationAliases, cols |-> EmptyObj, rel |-> EmptyObj]

\* resetQueryBuilder()
resetQueryBuilder ==
  [qb |-> createQueryBuilder(ResetAlias), aliases |-> NoMap, cols |-> EmptyObj, rel |-> EmptyObj]

\* constructor
\* the DbContext after construction: no query runner, nothing stored, nothing
\* written through a query runner (pending); inside, undone and kept remember
\* the entities saved since the transaction began, and those whose
\* transaction was rolled back or committed
NewContext ==
  [queryRunner |-> "none", stored |-> {}, pending |-> {}, inside |-> {}, undone |-> {}, kept |-> {}]

\* no request is under way: nothing begun, nothing invoked on the context,
\* the response not sent, res.statusCode at its default
NoRequest ==
  [pc |-> "idle", served |-> 0, hasContext |-> FALSE, statusCode |-> 200, begun |-> FALSE,
   finished |-> FALSE, isHandled |-> FALSE, listening |-> FALSE, invoked |-> <<>>]

Init ==
  /\ queryBuilder = createQueryBuilder(ToLowerCase(EntityName))
  /\ relationAliases = NoMap
  /\ selectedColumns = EmptyObj
  /\ selectedRelationColumns = EmptyObj
  /\ outcome = Outcome("new", Undef, NoError, Undef, <<>>)
  /\ calls = 0
  /\ requested = NothingRequested
  /\ budget = MaxCalls
  /\ awaiting = NotAwaiting
  /\ context = NewContext
  /\ request = NoRequest
  /\ predicate = [alias |-> ToLowerCase(EntityName), expr |-> EmptyObj]
  /\ compiled = NotCompiled

\* include(keySelector)
Include(keySelector) ==
  /\ calls < budget
  /\ UNCHANGED <<budget, awaiting>>
  /\ LET fresh == resetQueryBuilder
         st == addInclude(keySelector, fresh.qb.alias, "",
                          [aliases |-> fresh.aliases, qb |-> fresh.qb, err |-> NoError])
     IN /\ queryBuilder' = st.qb
        /\ relationAliases' = st.aliases
        /\ selectedColumns' = fresh.cols
        /\ selectedRelationColumns' = fresh.rel
        /\ outcome' = Outcome("include", keySelector, st.err, Undef, <<>>)
        /\ requested' = [requested EXCEPT !.included = DOMAIN st.aliases]
  /\ calls' = calls + 1
  /\ UNCHANGED <<compilation, ambient>>

\* where(predicate)
Where(predicate_) ==
  /\ calls < budget
  /\ UNCHANGED <<budget, awaiting>>
  /\ LET r == parseJsonPredicate(predicate_, queryBuilder.alias, relationAliases, queryBuilder)
     IN /\ queryBuilder' = IF r.err = NoError THEN qbWhere(r.qb, r.text, r.params) ELSE r.qb
        /\ relationAliases' = r.aliases
        /\ outcome' = Outcome("where", predicate_, r.err, Undef, <<>>)
        /\ requested' = IF r.err = NoError
                        THEN [requested EXCEPT !.wheres = IF r.text # "" THEN <<r.text>> ELSE <<>>]
                        ELSE requested
  /\ calls' = calls + 1
  /\ UNCHANGED <<selectedColumns, selectedRelationColumns, compilation, ambient>>

\* select(selector)
Select(selector) ==
  /\ calls < budget
  /\ UNCHANGED <<budget, awaiting>>
  /\ LET st == addSelect(selector, queryBuilder.alias, "",
                         [aliases |-> relationAliases, qb |-> queryBuilder, cols |-> selectedColumns,
                          rel |-> selectedRelationColumns, err |-> NoError])
     IN /\ queryBuilder' = st.qb
        /\ selectedColumns' = st.cols
        /\ selectedRelationColumns' = st.rel
        /\ outcome' = Outcome("select", selector, st.err, Undef, <<>>)
        /\ requested' = IF st.err = NoError
                        THEN [requested EXCEPT !.columns = @ \cup
                                {k \in KeySet(selector) : TypeOf(Get(selector, k)) = "boolean"}]
                        ELSE requested
  /\ calls' = calls + 1
  /\ UNCHANGED <<relationAliases, compilation, ambient>>

\* orderBy(keySelector)
OrderBy(keySelector) ==
  /\ calls < budget
  /\ UNCHANGED <<budget, awaiting>>
  /\ queryBuilder' = addOrderBy(queryBuilder, keySelector, "ASC")
  /\ outcome' = Outcome("orderBy", S(keySelector), NoError, Undef, <<>>)
  /\ requested' = [requested EXCEPT !.orderBys = Append(@, [sort |-> keySelector, order |-> "ASC"])]
  /\ calls' = calls + 1
  /\ UNCHANGED <<relationAliases, selectedColumns, selectedRelationColumns, compilation, ambient>>

\* orderByDescending(keySelector)
OrderByDescending(keySelector) ==
  /\ calls < budget
  /\ UNCHANGED <<budget, awaiting>>
  /\ queryBuilder' = addOrderBy(queryBuilder, keySelector, "DESC")
  /\ outcome' = Outcome("orderByDescending", S(keySelector), NoError, Undef, <<>>)
  /\ requested' = [requested EXCEPT !.orderBys = Append(@, [sort |-> keySelector, order |-> "DESC"])]
  /\ calls' = calls + 1
  /\ UNCHANGED <<relationAliases, selectedColumns, selectedRelationColumns, compilation, ambient>>

\* skip(count)
Skip(count) ==
  /\ calls < budget
  /\ UNCHANGED <<budget, awaiting>>
  /\ queryBuilder' = [queryBuilder EXCEPT !.skip = N(count)]
  /\ outcome' = Outcome("skip", N(count), NoError, Undef, <<>>)
  /\ requested' = [requested EXCEPT !.skip = N(count)]
  /\ calls' = calls + 1
  /\ UNCHANGED <<relationAliases, selectedColumns, selectedRelationColumns, compilation, ambient>>

\* take(count)
Take(count) ==
  /\ calls < budget
  /\ UNCHANGED <<budget, awaiting>>
  /\ queryBuilder' = [queryBuilder EXCEPT !.take = N(count)]
  /\ outcome' = Outcome("take", N(count), NoError, Undef, <<>>)
  /\ requested' = [requested EXCEPT !.take = N(count)]
  /\ calls' = calls + 1
  /\ UNCHANGED <<relationAliases, selectedColumns, selectedRelationColumns, compilation, ambient>>

\* what every terminal call does to the session after the engine has answered
Terminal(op, err, value, rows) ==
  /\ queryBuilder' = resetQueryBuilder.qb
  /\ relationAliases' = resetQueryBuilder.aliases
  /\ selectedColumns' = resetQueryBuilder.cols
  /\ selectedRelationColumns' = resetQueryBuilder.rel
  /\ outcome' = Outcome(op, Undef, err, value, rows)
  /\ calls' = 0
  /\ requested' = NothingRequested
  /\ UNCHANGED <<compilation, budget, awaiting, ambient>>

\* results.map(item => this.filterSelectedColumns(item))
Materialized(rows) ==
  [i \in 1..Len(rows) |-> filterSelectedColumns(rows[i], selectedColumns, selectedRelationColumns).result]

\* getOne() after limit(1): the first row of the answer, or null
GetOne(rows) == IF Len(rows) = 0 THEN Null ELSE rows[1]

\* first()
First ==
  \E rows \in EngineRows(queryBuilder) :
    LET result == GetOne(rows)
        filteredResult == IF Truthy(result)
                          THEN filterSelectedColumns(result, selectedColumns, selectedRelationColumns).result
                          ELSE Null
    IN IF ~Truthy(filteredResult) THEN Terminal("first", NoEntityFound, Undef, rows)
       ELSE Terminal("first", NoError, filteredResult, rows)

\* firstOrDefault()
FirstOrDefault ==
  \E rows \in EngineRows(queryBuilder) :
    LET result == GetOne(rows)
        filteredResult == IF Truthy(result)
                          THEN filterSelectedColumns(result, selectedColumns, selectedRelationColumns).result
                          ELSE Null
    IN Terminal("firstOrDefault", NoError, filteredResult, rows)

\* a single() that hands over the first row however many came back
SingleOfMany ==
  \E rows \in EngineRows(queryBuilder) :
    LET filteredResults == Materialized(rows)
    IN IF Len(filteredResults) = 0 THEN Terminal("single", NoEntityFound, Undef, rows)
       ELSE Terminal("single", NoError, filteredResults[1], rows)

\* single()
Single ==
  \E rows \in EngineRows(queryBuilder) :
    LET filteredResults == Materialized(rows)
    IN IF Len(filteredResults) = 0 THEN Terminal("single", NoEntityFound, Undef, rows)
       ELSE IF Len(filteredResults) > 1 THEN Terminal("single", MultipleEntitiesFound, Undef, rows)
       ELSE Terminal("single", NoError, filteredResults[1], rows)

\* singleOrDefault()
SingleOrDefault ==
  \E rows \in EngineRows(queryBuilder) :
    LET filteredResults == Materialized(rows)
    IN IF Len(filteredResults) > 1 THEN Terminal("singleOrDefault", MultipleEntitiesFound, Undef, rows)
       ELSE IF Len(filteredResults) = 1 /\ Truthy(filteredResults[1])
       THEN Terminal("singleOrDefault", NoError, filteredResults[1], rows)
       ELSE Terminal("singleOrDefault", NoError, Null, rows)

\* toList()
ToList ==
  \E rows \in EngineRows(queryBuilder) : Terminal("toList", NoError, A(Materialized(rows)), rows)

\* withCount()
WithCount ==
  \E rows \in EngineRows(queryBuilder) :
    Terminal("withCount", NoError, A(<<N(Len(rows)), A(Materialized(rows))>>), rows)

\* any()
AnyExists == \E result \in BOOLEAN : Terminal("any", NoError, B(result), <<>>)

Next ==
  \/ \E keySelector \in IncludeInputs : Include(keySelector)
  \/ \E p \in WhereInputs : Where(p)
  \/ \E selector \in SelectInputs : Select(selector)
  \/ \E keySelector \in OrderKeys : OrderBy(keySelector)
  \/ \E keySelector \in OrderKeys : OrderByDescending(keySelector)
  \/ \E count \in SkipCounts : Skip(count)
  \/ \E count \in TakeCounts : Take(count)
  \/ First
  \/ FirstOrDefault
  \/ Single
  \/ SingleOrDefault
  \/ ToList
  \/ WithCount
  \/ AnyExists

Spec == Init /\ [][Next]_vars

(***************************************************************************)
(* One compilation pass on its own: parseJsonPredicate(predicate, alias)   *)
(***************************************************************************)
CompileAliases == {"u", "users"}
CompileFields == {"name", "age"}
CompileOperands == {N(18), N(65), S("John")}
\* operator and combinator names, written with the '$' of the code's switch
\* or bare
TokenPrefixes == {"$", ""}
OperatorNames == {"eq", "ne", "gte", "lt"}
CombinatorNames == {"and", "or"}

\* a comparison is written <<field, operator name, operand>>
Comparisons == CompileFields \X OperatorNames \X CompileOperands
Comparison(prefix, c) == Cmp(c[1], prefix \o c[2], c[3])
\* the comparisons that appear under a combinator
ListedComparisons == {c \in Comparisons : c[2] \in {"eq", "gte", "lt"} /\ c[3] # S("John")}
\* {$and: [c, d]}, {$or: [c, d]}
Combined(prefix, k, c, d) ==
  O(<<KV(prefix \o k, A(<<Comparison(prefix, c), Comparison(prefix, d)>>))>>)
\* {$or: [c, {$and: [d, e]}]} and the like
Nested(prefix, k, j, c, d, e) ==
  O(<<KV(prefix \o k, A(<<Comparison(prefix, c), Combined(prefix, j, d, e)>>))>>)
NestedComparisons == {c \in ListedComparisons : c[2] # "eq" /\ c[3] = N(18)}

\* predicates that filter one field several times: in one object, in an
\* intra-field $or list, under combinators, with ranges, and on the related
\* entities of the path
RepeatedFieldInputs ==
  { O(<<KV("age", O(<<KV("$gte", N(18)), KV("$lt", N(65)), KV("$between", A(<<N(1), N(2)>>))>>))>>),
    O(<<KV("age", O(<<KV("$or", A(<<O(<<KV("$eq", N(18))>>), O(<<KV("$between", A(<<N(1), N(2)>>))>>)>>)),
                      KV("$ne", N(65))>>))>>),
    O(<<KV("$and", A(<<Cmp("age", "$between", A(<<N(18), N(65)>>)),
                       O(<<KV("$or", A(<<Cmp("age", "$eq", N(18)),
                                         Cmp("age", "$between", A(<<N(1), N(2)>>))>>))>>)>>))>>),
    O(<<KV("name", O(<<KV("$eq", S("John"))>>)),
        KV("posts", O(<<KV("name", O(<<KV("$like", S("a"))>>)),
                        KV("author", O(<<KV("name", O(<<KV("$in", A(<<S("a"), S("b")>>))>>))>>))>>))>>),
    O(<<KV("age", O(<<KV("$isNull", True), KV("$eq", N(18))>>)),
        KV("name", O(<<KV("$isNotNull", True), KV("$startsWith", S("J"))>>))>>),
    O(<<KV("$or", A(<<O(<<KV("age", O(<<KV("$between", A(<<N(1), N(2)>>))>>)),
                          KV("profile", Cmp("age", "$between", A(<<N(3), N(4)>>)))>>),
                      Cmp("age", "$notIn", A(<<N(5)>>))>>))>>) }

PredicateInputs ==
  RepeatedFieldInputs \cup
  UNION {{Comparison(prefix, c) : c \in Comparisons}
           \cup {Combined(prefix, k, c, d) :
                   k \in CombinatorNames, c \in ListedComparisons, d \in ListedComparisons}
           \cup {Nested(prefix, kj[1], kj[2], c, de[1], de[2]) :
                   kj \in CombinatorNames \X CombinatorNames, c \in NestedComparisons,
                   de \in NestedComparisons \X NestedComparisons} : prefix \in TokenPrefixes}

InitCompile ==
  /\ queryBuilder = createQueryBuilder(ToLowerCase(EntityName))
  /\ relationAliases = NoMap
  /\ selectedColumns = EmptyObj
  /\ selectedRelationColumns = EmptyObj
  /\ outcome = Outcome("new", Undef, NoError, Undef, <<>>)
  /\ calls = 0
  /\ requested = NothingRequested
  /\ budget = MaxCalls
  /\ awaiting = NotAwaiting
  /\ context = NewContext
  /\ request = NoRequest
  /\ predicate \in [alias : CompileAliases, expr : PredicateInputs]
  /\ compiled = NotCompiled

\* const { text, params } = this.parseJsonPredicate(predicate, alias)
Compile ==
  /\ ~compiled.done
  /\ LET r == parseJsonPredicate(predicate.expr, predicate.alias, NoMap,
                                 createQueryBuilder(predicate.alias))
     IN compiled' = [done |-> TRUE, text |-> r.text, params |-> r.params, err |-> r.err]
  /\ UNCHANGED <<predicate, session, ambient>>

NextCompile == Compile

SpecCompile == InitCompile /\ [][NextCompile]_vars

(***************************************************************************)
(* Properties of the session                                               *)
(***************************************************************************)
TerminalCalls == {"first", "firstOrDefault", "single", "singleOrDefault", "toList", "withCount", "any"}
\* the calls that start from a fresh query builder
ResettingCalls == TerminalCalls \cup {"include"}

JoinAliasesDistinct ==
  \A i, j \in 1..Len(queryBuilder.joins) :
    i # j => queryBuilder.joins[i].alias # queryBuilder.joins[j].alias
AliasesKept ==
  \A p \in DOMAIN relationAliases :
    p \in DOMAIN relationAliases' /\ relationAliases'[p] = relationAliases[p]

\* C1: between one reset and the next, a call never changes the alias the
\* registry holds for a relation path, and the query never holds two joins
\* with the same alias.
C1_AliasStable ==
  /\ []JoinAliasesDistinct
  /\ [][outcome'.op \notin ResettingCalls => AliasesKept]_vars

\* a filter on an included relation went through the alias the include chose
C1_Witness ==
  /\ outcome.op = "where"
  /\ outcome.err = NoError
  /\ "posts" \in DOMAIN relationAliases
  /\ relationAliases["posts"].alias = "p"
  /\ Len(queryBuilder.joins) = 1
  /\ queryBuilder.wheres = <<"p.published = :published_0">>

\* the key a relation of the plan is expected under: the alias asked for, or
\* the property name when the alias is the generated one
ExpectedKey(r) ==
  LET node == Get(selectedRelationColumns, r)
  IN IF Get(node, "alias") = S(queryBuilder.alias \o "_" \o r) THEN r ELSE Str(Get(node, "alias"))

\* C2 (as the specification states it): every relation of the plan that the
\* raw row carries appears in the returned row under its requested alias, or
\* under its property name when no alias was requested; with posts included,
\* select {name, posts: {title: {as: postTitle}}} returns rows shaped
\* {name, posts: [{postTitle}]}.
C2_OutputKey ==
  [][outcome'.op = "toList" =>
       \A i \in 1..Len(outcome'.rows) :
         /\ \A r \in KeySet(selectedRelationColumns) :
              Truthy(Get(outcome'.rows[i], r)) => Has(outcome'.value.e[i], ExpectedKey(r))
         /\ (/\ KeySet(selectedColumns) = {"name"}
             /\ KeySet(selectedRelationColumns) = {"posts"}
             /\ Get(outcome'.rows[i], "name") = S("ann"))
            => outcome'.value.e[i] =
                 O(<<KV("name", S("ann")),
                     KV("posts", A(<<O(<<KV("postTitle", S("t1"))>>),
                                     O(<<KV("postTitle", S("t2"))>>)>>))>>)]_vars

\* C3 (as the specification states it): whatever order the builder calls are
\* made in, the ordering, the paging, the filter and the selected columns they
\* asked for are all still in place until the terminal call.
C3_OrderIndependent ==
  /\ queryBuilder.orderBys = requested.orderBys
  /\ queryBuilder.skip = requested.skip
  /\ queryBuilder.take = requested.take
  /\ queryBuilder.wheres = requested.wheres
  /\ requested.columns \subseteq KeySet(selectedColumns)

\* C4: once a terminal call has returned or raised its cardinality error, the
\* registry and the plan are empty and the query builder carries no join,
\* filter, ordering or paging.
C4_ResetAfterTerminal ==
  outcome.op \in TerminalCalls =>
    /\ relationAliases = NoMap
    /\ selectedColumns = EmptyObj
    /\ selectedRelationColumns = EmptyObj
    /\ queryBuilder = createQueryBuilder(queryBuilder.alias)

\* a terminal call returned rows projected through an included relation and
\* left nothing behind
C4_Witness ==
  /\ outcome.op = "toList"
  /\ \E i \in 1..Len(outcome.value.e) : Has(outcome.value.e[i], "users_posts")
  /\ relationAliases = NoMap
  /\ queryBuilder.joins = <<>>

\* the keys of a comparison object the switch of walkField has no case for
UnknownKeys(conditions) == {k \in KeySet(conditions) : k \notin OperatorTokens}

\* C5 (as the specification states it): a where call whose predicate gives a
\* field that is no relation a comparison object with a key outside the
\* operator table raises UnsupportedOperator naming such a key.
C5_UnknownOperatorRaises ==
  outcome.op = "where" =>
    \A f \in KeySet(outcome.arg) :
      (/\ f \notin {"$and", "$or"}
       /\ f \notin DOMAIN Relations[EntityName]
       /\ Get(outcome.arg, f).t = "object"
       /\ UnknownKeys(Get(outcome.arg, f)) # {})
      => \E k \in UnknownKeys(Get(outcome.arg, f)) : outcome.err = UnsupportedOperator(k)

\* C6 (as the specification states it): a where call that raises leaves the
\* alias registry and the query builder (joins, filter, parameters) exactly
\* as they were before the call.
C6_NoPartialCompilation ==
  [][(outcome'.op = "where" /\ outcome'.err # NoError)
       => (relationAliases' = relationAliases /\ queryBuilder' = queryBuilder)]_vars

\* the relation paths a selector names: the keys whose value is an object
\* without 'as', below the given path
RECURSIVE RelationPaths(_, _)
RelationPaths(selector, prefix) ==
  UNION {LET value == Get(selector, k)
             path == IF prefix # "" THEN prefix \o "." \o k ELSE k
         IN IF TypeOf(value) = "object" /\ ~Has(value, "as")
            THEN {path} \cup RelationPaths(value, path)
            ELSE {} : k \in KeySet(selector)}

SelectAddsNothing ==
  /\ queryBuilder'.joins = queryBuilder.joins
  /\ relationAliases' = relationAliases

RelationNames(entity) ==
  CASE entity = "User" -> "posts, profile, profile_image"
    [] entity = "Post" -> "author"
    [] entity = "Profile" -> "image, cover"
    [] OTHER -> ""

\* the relation references of a predicate (a key whose value is an object of
\* nested conditions, none of its keys an operator token) that name no
\* relation of the entity reached so far
RECURSIVE UnknownSegments(_, _, _)
UnknownSegments(expr, entity, prefix) ==
  UNION {LET conditions == Get(expr, k)
             path == IF prefix # "" THEN prefix \o "." \o k ELSE k
         IN IF ~(/\ conditions.t = "object"
                 /\ KeySet(conditions) \cap OperatorTokens = {}
                 /\ \A c \in KeySet(conditions) : Get(conditions, c).t = "object")
            THEN {}
            ELSE IF k \notin DOMAIN Relations[entity]
            THEN {[part |-> k, entity |-> entity, path |-> path]}
            ELSE UnknownSegments(conditions, Relations[entity][k], path) : k \in KeySet(expr) \ {"$and", "$or"}}

\* C8 (as the specification states it): a where call whose predicate names
\* a segment that is no relation of the entity reached so far raises
\* RelationNotFound listing that entity's relations, and the registry and
\* the joins hold nothing for that segment.
C8_RelationNotFound ==
  outcome.op = "where" =>
    \A u \in UnknownSegments(outcome.arg, EntityName, "") :
      /\ outcome.err = RelationNotFound(u.part, u.entity, RelationNames(u.entity))
      /\ u.path \notin DOMAIN relationAliases

\* C9 (as the specification states it): no two relation paths of the
\* registry hold the same alias.
C9_AliasesUnique ==
  \A p, q \in DOMAIN relationAliases :
    p # q => relationAliases[p].alias # relationAliases[q].alias

(***************************************************************************)
(* Properties of one compilation pass                                      *)
(***************************************************************************)
SqlOperator(name) ==
  CASE name = "eq" -> "=" [] name = "ne" -> "!=" [] name = "gte" -> ">=" [] name = "lt" -> "<"
Separator(k) == IF k = "and" THEN " AND " ELSE " OR "
\* the parameter name of comparison c when it is the i-th of the pass
ParamName(c, i) == c[1] \o "_" \o ToString(i)
\* the text expected of comparison c when it is the i-th of the pass
Rendering(c, i) ==
  predicate.alias \o "." \o c[1] \o " " \o SqlOperator(c[2]) \o " :" \o ParamName(c, i)
\* the bindings made are those of the comparisons cs, numbered from 0
BoundTo(cs) ==
  /\ DOMAIN compiled.params = {ParamName(cs[i], i - 1) : i \in 1..Len(cs)}
  /\ \A i \in 1..Len(cs) : compiled.params[ParamName(cs[i], i - 1)] = cs[i][3]

\* what the compiler is expected to return when the tokens are written with
\* the given prefix
RendersWith(prefix) ==
  compiled.done =>
    /\ \A c \in Comparisons :
         predicate.expr = Comparison(prefix, c) =>
           /\ compiled.err = NoError
           /\ compiled.text = Rendering(c, 0)
           /\ BoundTo(<<c>>)
    /\ \A k \in CombinatorNames : \A c, d \in ListedComparisons :
         predicate.expr = Combined(prefix, k, c, d) =>
           /\ compiled.err = NoError
           /\ compiled.text = "(" \o Rendering(c, 0) \o Separator(k) \o Rendering(d, 1) \o ")"
           /\ BoundTo(<<c, d>>)
    /\ \A k, j \in CombinatorNames : \A c, d, e \in NestedComparisons :
         predicate.expr = Nested(prefix, k, j, c, d, e) =>
           /\ compiled.err = NoError
           /\ compiled.text = "(" \o Rendering(c, 0) \o Separator(k)
                                \o "(" \o Rendering(d, 1) \o Separator(j) \o Rendering(e, 2) \o "))"
           /\ BoundTo(<<c, d, e>>)

\* C10 (as the specification states it): {f: {eq: v}} compiles under alias a
\* to `a.f = :f_0` with params {f_0: v}; {and: [...]} and {or: [...]} compile
\* their children in order, joined with ' AND ' / ' OR ' inside one pair of
\* parentheses, the parameter index growing from left to right.
C10_BareTokens == RendersWith("")

\* C10 (amended): the same rendering, for the tokens the compiler knows:
\* {f: {$eq: v}} compiles under alias a to `a.f = :f_0` with params {f_0: v};
\* {$and: [...]} and {$or: [...]} compile their children in order, joined
\* with ' AND ' / ' OR ' inside one pair of parentheses, the parameter index
\* growing from left to right.
C10_DollarTokens == RendersWith("$")

\* {$and: [{age: {$gte: 18}}, {age: {$lt: 65}}]} compiled under alias u
C10_Witness ==
  /\ compiled.done
  /\ predicate.alias = "u"
  /\ predicate.expr = Combined("$", "and", <<"age", "gte", N(18)>>, <<"age", "lt", N(65)>>)
  /\ compiled.text = "(u.age >= :age_0 AND u.age < :age_1)"
  /\ compiled.params = [n \in {"age_0", "age_1"} |-> IF n = "age_0" THEN N(18) ELSE N(65)]

\* the bindings a predicate asks for: one per comparison, two per range,
\* none for a null test
RECURSIVE BindingsAsked(_)
RECURSIVE BindingsAskedOfField(_)
BindingsAskedOfField(conditions) ==
  LET es == Entries(conditions)
      n[i \in 0..Len(es)] ==
        IF i = 0 THEN 0
        ELSE n[i - 1] +
             (CASE es[i].k = "$or" ->
                     LET items == Entries(es[i].v)
                         m[j \in 0..Len(items)] ==
                           IF j = 0 THEN 0 ELSE m[j - 1] + BindingsAskedOfField(items[j].v)
                     IN m[Len(items)]
                [] es[i].k = "$between" -> 2
                [] es[i].k \in {"$isNull", "$isNotNull"} -> 0
                [] OTHER -> 1)
  IN n[Len(es)]
BindingsAsked(expr) ==
  LET es == IF Has(expr, "$or") THEN Entries(Get(expr, "$or"))
            ELSE IF Has(expr, "$and") THEN Entries(Get(expr, "$and"))
            ELSE Entries(expr)
      combinator == Has(expr, "$or") \/ Has(expr, "$and")
      n[i \in 0..Len(es)] ==
        IF i = 0 THEN 0
        ELSE n[i - 1] +
             (IF combinator \/ KeySet(es[i].v) \cap OperatorTokens = {}
              THEN BindingsAsked(es[i].v)
              ELSE BindingsAskedOfField(es[i].v))
  IN n[Len(es)]

\* C11: a compilation pass that succeeds holds one parameter per binding it
\* made: every bound name is distinct, no binding overwrote another; a range
\* is bound under <name>_start and <name>_end.
C11_ParametersDistinct ==
  (compiled.done /\ compiled.err = NoError)
    => Cardinality(DOMAIN compiled.params) = BindingsAsked(predicate.expr)

\* age is filtered by a range under $and and by a comparison and a second
\* range under $or: five bindings under five names
C11_Witness ==
  /\ compiled.done
  /\ compiled.err = NoError
  /\ DOMAIN compiled.params = {"age_0_start", "age_0_end", "age_1", "age_2_start", "age_2_end"}
  /\ BindingsAsked(predicate.expr) = 5

\* name is filtered on the root, on its posts and on their author
C11_RelationsReached ==
  /\ compiled.done
  /\ compiled.err = NoError
  /\ DOMAIN compiled.params = {"name_0", "name_1", "name_2"}

(***************************************************************************)
(* A session whose calls all work on the relation posts                    *)
(***************************************************************************)
\* builder calls such a session makes between two terminal calls
MaxPostsCalls == 3

PostsIncludes == {O(<<KV("posts", True)>>), O(<<KV("posts", O(<<KV("as", S("p"))>>))>>)}
PostsWheres ==
  { In("posts", Cmp("published", "$eq", True)),
    O(<<KV("name", O(<<KV("$eq", S("ann"))>>)), KV("posts", Cmp("title", "$like", S("t")))>>) }
PostsSelects ==
  { O(<<KV("posts", O(<<KV("title", True)>>))>>),
    O(<<KV("posts", O(<<KV("id", True)>>))>>),
    O(<<KV("name", True), KV("posts", O(<<KV("title", O(<<KV("as", S("postTitle"))>>))>>))>>),
    O(<<KV("id", O(<<KV("as", S("key"))>>)), KV("name", O(<<KV("as", S("label"))>>))>>),
    O(<<KV("name", O(<<KV("as", S("title"))>>))>>) }

InitPosts ==
  /\ queryBuilder = createQueryBuilder(ToLowerCase(EntityName))
  /\ relationAliases = NoMap
  /\ selectedColumns = EmptyObj
  /\ selectedRelationColumns = EmptyObj
  /\ outcome = Outcome("new", Undef, NoError, Undef, <<>>)
  /\ calls = 0
  /\ requested = NothingRequested
  /\ budget = MaxPostsCalls
  /\ awaiting = NotAwaiting
  /\ context = NewContext
  /\ request = NoRequest
  /\ predicate = [alias |-> ToLowerCase(EntityName), expr |-> EmptyObj]
  /\ compiled = NotCompiled

NextPosts ==
  \/ \E keySelector \in PostsIncludes : Include(keySelector)
  \/ \E p \in PostsWheres : Where(p)
  \/ \E selector \in PostsSelects : Select(selector)
  \/ ToList
  \/ FirstOrDefault

SpecPosts == InitPosts /\ [][NextPosts]_vars

\* the filter text expected of a predicate of PostsWheres when posts is
\* reached through the given alias
PostsFilter(p, root, alias) ==
  IF p = In("posts", Cmp("published", "$eq", True))
  THEN alias \o ".published = :published_0"
  ELSE root \o ".name = :name_0 AND " \o alias \o ".title LIKE :title_1"

\* the columns of posts a selector asks for
PostsColumns(selector) == KeySet(Get(selector, "posts"))

\* C12: when posts has been included, a where and a select on posts leave
\* the registry and the joins as the include made them (one join for posts,
\* the entry unchanged); the filter fragment and the selection both go
\* through the alias the include recorded.
C12_OneJoinShared ==
  [][(/\ outcome'.op \in {"where", "select"}
      /\ outcome'.err = NoError
      /\ Has(outcome'.arg, "posts")
      /\ "posts" \in requested.included)
     => LET alias == relationAliases["posts"].alias
        IN /\ relationAliases' = relationAliases
           /\ queryBuilder'.joins = queryBuilder.joins
           /\ Len(queryBuilder'.joins) = 1
           /\ queryBuilder'.joins[1].property = queryBuilder.alias \o ".posts"
           /\ queryBuilder'.joins[1].alias = alias
           /\ outcome'.op = "where" =>
                queryBuilder'.wheres = <<PostsFilter(outcome'.arg, queryBuilder.alias, alias)>>
           /\ outcome'.op = "select" =>
                /\ Get(Get(selectedRelationColumns', "posts"), "alias") = S(alias)
                /\ \A c \in PostsColumns(outcome'.arg) :
                     \E i \in 1..Len(queryBuilder'.selects) :
                       queryBuilder'.selects[i].selection = alias \o "." \o c]_vars

\* posts was included as p, filtered and selected: one join, the filter and
\* the selection on p
C12_Witness ==
  /\ outcome.op = "select"
  /\ outcome.err = NoError
  /\ requested.included = {"posts"}
  /\ Len(queryBuilder.joins) = 1
  /\ queryBuilder.joins[1].alias = "p"
  /\ queryBuilder.wheres = <<"p.published = :published_0">>
  /\ Get(Get(selectedRelationColumns, "posts"), "alias") = S("p")
  /\ \E i \in 1..Len(queryBuilder.selects) : queryBuilder.selects[i].selection = "p.title"

(***************************************************************************)
(* Properties of materialization                                           *)
(***************************************************************************)
\* the keys of a raw item that are columns of its entity
ColumnsOf(item, entity) == {k \in KeySet(item) : k \notin DOMAIN Relations[entity]}

\* the returned item carries every column of the raw item
PassesThrough(raw, entity, returned) ==
  \A k \in ColumnsOf(raw, entity) : Has(returned, k) /\ Get(returned, k) = Get(raw, k)

\* the key mapRelationColumns writes a relation node under
OutputKey(node, key) == IF Truthy(Get(node, "alias")) THEN Str(Get(node, "alias")) ELSE key

\* C13 (as the specification states it): a node of the plan for which no
\* column was selected, the root or a relation, comes back with all the
\* columns of its entity, whether or not relations were selected under it.
C13_PassThrough ==
  [][outcome'.op = "toList" =>
       \A i \in 1..Len(outcome'.rows) :
         LET raw == outcome'.rows[i]
             returned == outcome'.value.e[i]
         IN /\ Entries(selectedColumns) = <<>> => PassesThrough(raw, EntityName, returned)
            /\ \A r \in KeySet(selectedRelationColumns) :
                 LET node == Get(selectedRelationColumns, r)
                 IN (/\ r \in DOMAIN Relations[EntityName]
                     /\ Entries(Get(node, "columns")) = <<>>
                     /\ Get(raw, r).t = "object")
                    => /\ Has(returned, OutputKey(node, r))
                       /\ PassesThrough(Get(raw, r), Relations[EntityName][r],
                                        Get(returned, OutputKey(node, r)))]_vars

(***************************************************************************)
(* Properties of the projection plan                                       *)
(***************************************************************************)
\* the entries of a relation node other than its own alias, columns and path:
\* the relations selected under it
NestedRelations(node) == KeySet(node) \ {"alias", "columns", "path"}

\* every column and nested relation of the node before is in the node after
RECURSIVE NodeKept(_, _)
NodeKept(before, after) ==
  /\ KeySet(Get(before, "columns")) \subseteq KeySet(Get(after, "columns"))
  /\ \A n \in NestedRelations(before) :
       Has(after, n) /\ NodeKept(Get(before, n), Get(after, n))

\* C14 (as the specification states it): a select call adds to what earlier
\* select calls of the session asked for: every root column stays (the new
\* value wins for a column named again), every relation of the tree keeps
\* its columns and nested relations, and what the call asks for is there.
C14_SelectAccumulates ==
  [][(outcome'.op = "select" /\ outcome'.err = NoError) =>
       /\ \A k \in KeySet(selectedColumns) :
            /\ Has(selectedColumns', k)
            /\ ~Has(outcome'.arg, k) => Get(selectedColumns', k) = Get(selectedColumns, k)
       /\ \A r \in KeySet(selectedRelationColumns) :
            /\ Has(selectedRelationColumns', r)
            /\ NodeKept(Get(selectedRelationColumns, r), Get(selectedRelationColumns', r))
       /\ \A k \in KeySet(outcome'.arg) :
            LET value == Get(outcome'.arg, k)
            IN IF TypeOf(value) = "object" /\ ~Has(value, "as")
               THEN /\ Has(selectedRelationColumns', k)
                    /\ {c \in KeySet(value) : TypeOf(Get(value, c)) # "object" \/ Has(Get(value, c), "as")}
                         \subseteq KeySet(Get(Get(selectedRelationColumns', k), "columns"))
               ELSE Has(selectedColumns', k)]_vars

C16_AbsentOmitted ==
  [][outcome'.op = "toList" =>
       \A i \in 1..Len(outcome'.rows) :
         LET raw == outcome'.rows[i]
             returned == outcome'.value.e[i]
         IN \A r \in KeySet(selectedRelationColumns) :
              LET node == Get(selectedRelationColumns, r)
              IN /\ ~Truthy(Get(raw, r)) =>
                      ~Has(returned, r) /\ ~Has(returned, OutputKey(node, r))
                 /\ (Get(raw, r).t = "object" /\ Has(returned, OutputKey(node, r))) =>
                      \A n \in NestedRelations(node) :
                        ~Truthy(Get(Get(raw, r), n)) =>
                          /\ ~Has(Get(returned, OutputKey(node, r)), n)
                          /\ ~Has(Get(returned, OutputKey(node, r)), OutputKey(Get(node, n), n))]_vars

\* C17 (as the specification states it): materializing a row leaves the raw
\* row as it was and returns an object other than the raw row.
C17_Pure ==
  [][outcome'.op = "toList" =>
       \A i \in 1..Len(outcome'.rows) :
         LET m == filterSelectedColumns(outcome'.rows[i], selectedColumns, selectedRelationColumns)
         IN m.data = outcome'.rows[i] /\ ~m.same]_vars

(***************************************************************************)
(* A terminal call in two steps: the query goes to the engine, and the     *)
(* rest of the method runs when the answer is there.  The repository       *)
(* object is the one DbContext.set hands to every caller, so builder calls *)
(* of another caller can run in between.                                   *)
(***************************************************************************)
\* builder calls made before a terminal call and while it waits
MaxAwaitCalls == 2

AwaitIncludes == {O(<<KV("posts", True)>>)}
AwaitWheres == {In("posts", Cmp("published", "$eq", True))}
AwaitSelects == {O(<<KV("name", True)>>), O(<<KV("posts", O(<<KV("title", True)>>))>>)}

InitAwait ==
  /\ queryBuilder = createQueryBuilder(ToLowerCase(EntityName))
  /\ relationAliases = NoMap
  /\ selectedColumns = EmptyObj
  /\ selectedRelationColumns = EmptyObj
  /\ outcome = Outcome("new", Undef, NoError, Undef, <<>>)
  /\ calls = 0
  /\ requested = NothingRequested
  /\ budget = MaxAwaitCalls
  /\ awaiting = NotAwaiting
  /\ context = NewContext
  /\ request = NoRequest
  /\ predicate = [alias |-> ToLowerCase(EntityName), expr |-> EmptyObj]
  /\ compiled = NotCompiled

\* toList() up to its await: this.queryBuilder.getMany() is under way; the
\* call is remembered with the query it sent and the plan built for it
ToListBegin ==
  /\ awaiting = NotAwaiting
  /\ awaiting' = [op |-> "toList", qb |-> queryBuilder,
                  cols |-> selectedColumns, rel |-> selectedRelationColumns]
  /\ calls' = 0
  /\ requested' = NothingRequested
  /\ UNCHANGED <<queryBuilder, relationAliases, selectedColumns, selectedRelationColumns,
                 outcome, budget, compilation, ambient>>

\* toList() from its await on: the rows are there, they are filtered with
\* this.selectedColumns / this.selectedRelationColumns and the session is reset
ToListEnd ==
  /\ awaiting # NotAwaiting
  /\ \E rows \in EngineRows(awaiting.qb) :
       outcome' = Outcome("toList", Undef, NoError, A(Materialized(rows)), rows)
  /\ queryBuilder' = resetQueryBuilder.qb
  /\ relationAliases' = resetQueryBuilder.aliases
  /\ selectedColumns' = resetQueryBuilder.cols
  /\ selectedRelationColumns' = resetQueryBuilder.rel
  /\ awaiting' = NotAwaiting
  /\ calls' = 0
  /\ requested' = NothingRequested
  /\ UNCHANGED <<budget, compilation, ambient>>

NextAwait ==
  \/ \E keySelector \in AwaitIncludes : Include(keySelector)
  \/ \E p \in AwaitWheres : Where(p)
  \/ \E selector \in AwaitSelects : Select(selector)
  \/ ToListBegin
  \/ ToListEnd

SpecAwait == InitAwait /\ [][NextAwait]_vars

\* C18 (as the specification states it): when a terminal call gets its
\* rows, it materializes them with the plan that was built for its query;
\* and a query built while it waited keeps its joins, registry and plan.
C18_SessionsApart ==
  [][(awaiting # NotAwaiting /\ awaiting' = NotAwaiting) =>
       /\ outcome'.value =
            A([i \in 1..Len(outcome'.rows) |->
                 filterSelectedColumns(outcome'.rows[i], awaiting.cols, awaiting.rel).result])
       /\ calls > 0 =>
            /\ queryBuilder' = queryBuilder
            /\ relationAliases' = relationAliases
            /\ selectedColumns' = selectedColumns
            /\ selectedRelationColumns' = selectedRelationColumns]_vars

(***************************************************************************)
(* Ordering, paging and the single-result calls                            *)
(***************************************************************************)
\* the keys that tell any two rows of the entity apart: its primary key,
\* bare or qualified by the alias of the query
UniqueKeys(qb) == {"id", qb.alias \o ".id"}

\* the ordering of the query leaves no two rows tied
OrderingTotal(qb) == \E i \in 1..Len(qb.orderBys) : qb.orderBys[i].sort \in UniqueKeys(qb)

\* the query is a slice of an ordered answer
OrderedSlice(qb) == qb.orderBys # <<>> /\ (qb.skip # Undef \/ qb.take # Undef)

\* the terminal calls that answer with rows
RowCalls == {"first", "firstOrDefault", "single", "singleOrDefault", "toList", "withCount"}

\* C19 (as the specification states it): when a terminal call hands an
\* ordered query with skip or take to the engine, the ordering of that query
\* is total: it holds a key that breaks every tie, so that the same slice
\* comes back on every execution.
C19_TotalOrdering ==
  [][(outcome'.op \in RowCalls /\ OrderedSlice(queryBuilder)) => OrderingTotal(queryBuilder)]_vars

\* the row a single-result call hands back for the first row of the answer
FirstMaterialized(rows) ==
  filterSelectedColumns(rows[1], selectedColumns, selectedRelationColumns).result

\* C20: first() returns the materialized first row, and raises 'No entity
\* found' exactly when the engine answered no row; firstOrDefault() returns
\* null then and raises nothing; single() raises 'No entity found' on no row,
\* 'Multiple entities found' on more than one and returns the only row
\* otherwise; singleOrDefault() returns null on no row, raises 'Multiple
\* entities found' on more than one and returns the only row otherwise.
C20_SingleResults ==
  [][LET rows == outcome'.rows
         err == outcome'.err
         value == outcome'.value
     IN /\ outcome'.op = "first" =>
             /\ err = NoEntityFound <=> Len(rows) = 0
             /\ Len(rows) > 0 => err = NoError /\ value = FirstMaterialized(rows)
        /\ outcome'.op = "firstOrDefault" =>
             /\ err = NoError
             /\ value = IF Len(rows) = 0 THEN Null ELSE FirstMaterialized(rows)
        /\ outcome'.op = "single" =>
             /\ err = NoEntityFound <=> Len(rows) = 0
             /\ err = MultipleEntitiesFound <=> Len(rows) > 1
             /\ Len(rows) = 1 => err = NoError /\ value = FirstMaterialized(rows)
        /\ outcome'.op = "singleOrDefault" =>
             /\ err = MultipleEntitiesFound <=> Len(rows) > 1
             /\ Len(rows) = 0 => err = NoError /\ value = Null
             /\ Len(rows) = 1 => err = NoError /\ value = FirstMaterialized(rows)]_vars

\* single() met two rows and raised, after a query with a plan was built
C20_Witness ==
  /\ outcome.op = "single"
  /\ Len(outcome.rows) = 2
  /\ outcome.err = MultipleEntitiesFound

(***************************************************************************)
(* Ordering and paging against stored rows                                 *)
(***************************************************************************)
MaxPagingCalls == 3

\* the three stored test entities
PagingRows ==
  <<O(<<KV("id", N(1)), KV("name", S("Entity 2")), KV("description", S("x"))>>),
    O(<<KV("id", N(2)), KV("name", S("Entity 1")), KV("description", S("x"))>>),
    O(<<KV("id", N(3)), KV("name", S("Entity 3")), KV("description", S("y"))>>)>>

PagingKeys == {"name", "description"}
PagingSkips == {1}
PagingTakes == {1, 2}

\* the place of a string in the collation of the engine
Collation ==
  [s \in {"Entity 1", "Entity 2", "Entity 3", "x", "y"} |->
     CASE s = "Entity 1" -> 1 [] s = "Entity 2" -> 2 [] s = "Entity 3" -> 3
       [] s = "x" -> 1 [] s = "y" -> 2]

\* the sort value of a column value
Rank(v) == IF v.t = "number" THEN v.n ELSE Collation[v.s]

\* ORDER BY: row a sorts strictly before row b under the pairs from i on
RECURSIVE SortsBefore(_, _, _, _)
SortsBefore(a, b, orderBys, i) ==
  IF i > Len(orderBys) THEN FALSE
  ELSE LET x == Rank(Get(a, orderBys[i].sort))
           y == Rank(Get(b, orderBys[i].sort))
       IN IF x = y THEN SortsBefore(a, b, orderBys, i + 1)
          ELSE IF orderBys[i].order = "ASC" THEN x < y ELSE x > y

\* the orders in which the engine may list the stored rows under an ordering
Orderings(orderBys) ==
  LET n == Len(PagingRows)
      perms == {p \in [1..n -> 1..n] : \A i, j \in 1..n : p[i] = p[j] => i = j}
      sorted == {p \in perms : \A i, j \in 1..n :
                   i < j => ~SortsBefore(PagingRows[p[j]], PagingRows[p[i]], orderBys, 1)}
  IN {[i \in 1..n |-> PagingRows[p[i]]] : p \in sorted}

\* OFFSET skip LIMIT take of a row list
Slice(rows, skip, take) ==
  LET n == IF skip = Undef THEN 0 ELSE skip.n
      m == IF take = Undef THEN Len(rows) ELSE take.n
      last == IF n + m < Len(rows) THEN n + m ELSE Len(rows)
  IN SubSeq(rows, n + 1, last)

\* the row lists getMany may return for an ordered, paged query on the rows
PagedRows(qb) == {Slice(rows, qb.skip, qb.take) : rows \in Orderings(qb.orderBys)}

InitPaging ==
  /\ queryBuilder = createQueryBuilder(ToLowerCase(EntityName))
  /\ relationAliases = NoMap
  /\ selectedColumns = EmptyObj
  /\ selectedRelationColumns = EmptyObj
  /\ outcome = Outcome("new", Undef, NoError, Undef, <<>>)
  /\ calls = 0
  /\ requested = NothingRequested
  /\ budget = MaxPagingCalls
  /\ awaiting = NotAwaiting
  /\ context = NewContext
  /\ request = NoRequest
  /\ predicate = [alias |-> ToLowerCase(EntityName), expr |-> EmptyObj]
  /\ compiled = NotCompiled

\* thenBy(keySelector)
ThenBy(keySelector) ==
  /\ calls < budget
  /\ UNCHANGED <<budget, awaiting>>
  /\ queryBuilder' = addOrderBy(queryBuilder, keySelector, "ASC")
  /\ outcome' = Outcome("thenBy", S(keySelector), NoError, Undef, <<>>)
  /\ requested' = [requested EXCEPT !.orderBys = Append(@, [sort |-> keySelector, order |-> "ASC"])]
  /\ calls' = calls + 1
  /\ UNCHANGED <<relationAliases, selectedColumns, selectedRelationColumns, compilation, ambient>>

\* thenByDescending(keySelector)
ThenByDescending(keySelector) ==
  /\ calls < budget
  /\ UNCHANGED <<budget, awaiting>>
  /\ queryBuilder' = addOrderBy(queryBuilder, keySelector, "DESC")
  /\ outcome' = Outcome("thenByDescending", S(keySelector), NoError, Undef, <<>>)
  /\ requested' = [requested EXCEPT !.orderBys = Append(@, [sort |-> keySelector, order |-> "DESC"])]
  /\ calls' = calls + 1
  /\ UNCHANGED <<relationAliases, selectedColumns, selectedRelationColumns, compilation, ambient>>

\* toList() on the stored rows
ToListPaged ==
  \E rows \in PagedRows(queryBuilder) : Terminal("toList", NoError, A(Materialized(rows)), rows)

NextPaging ==
  \/ \E keySelector \in PagingKeys : OrderBy(keySelector)
  \/ \E keySelector \in PagingKeys : OrderByDescending(keySelector)
  \/ \E keySelector \in PagingKeys : ThenBy(keySelector)
  \/ \E keySelector \in PagingKeys : ThenByDescending(keySelector)
  \/ \E count \in PagingSkips : Skip(count)
  \/ \E count \in PagingTakes : Take(count)
  \/ ToListPaged

SpecPaging == InitPaging /\ [][NextPaging]_vars

OrderingCalls == {"orderBy", "orderByDescending", "thenBy", "thenByDescending"}
DirectionOf(op) == IF op \in {"orderBy", "thenBy"} THEN "ASC" ELSE "DESC"

ProperPrefixes(path) ==
  LET parts == Split(path, ".")
  IN {Join(SubSeq(parts, 1, k), ".") : k \in 1..(Len(parts) - 1)}

\* the alias a join starts from: the part of its property before the dot
JoinParent(join) == Split(join.property, ".")[1]

\* C22: the alias registry is prefix-closed: with a dotted path it holds
\* every proper prefix of that path; and a join is added only behind the
\* join of its parent: every join of the query starts from the root alias
\* or from the alias of a join that stands before it.
C22_PrefixClosed ==
  /\ \A path \in DOMAIN relationAliases :
       \A parent \in ProperPrefixes(path) : parent \in DOMAIN relationAliases
  /\ \A i \in 1..Len(queryBuilder.joins) :
       \/ JoinParent(queryBuilder.joins[i]) = queryBuilder.alias
       \/ \E j \in 1..(i - 1) : queryBuilder.joins[j].alias = JoinParent(queryBuilder.joins[i])

\* a nested include and a filter through a dotted path have both registered
\* a path of two segments
C22_Witness ==
  /\ "profile.image" \in DOMAIN relationAliases
  /\ outcome.op = "where"
  /\ outcome.err = NoError
  /\ \E i \in 1..Len(queryBuilder.joins) : JoinParent(queryBuilder.joins[i]) # queryBuilder.alias

(***************************************************************************)
(* Transactions of the DbContext                                           *)
(***************************************************************************)
NoActiveTransaction == [kind |-> "Error", msg |-> "No active transaction"]

\* the entities the transaction tests save
TestNames == {"Transaction Test", "Rollback Test", "Test Entity"}

\* DbContext.beginTransaction: a new query runner with a transaction of its
\* own takes the place of this.queryRunner
beginTransaction(ctx) ==
  [ctx EXCEPT !.queryRunner = "started", !.pending = {}, !.inside = {}]

\* DbContext.commitTransaction
commitTransaction(ctx) ==
  IF ctx.queryRunner = "none" THEN [ctx |-> ctx, err |-> NoActiveTransaction]
  ELSE [ctx |-> [ctx EXCEPT !.queryRunner = "none", !.stored = @ \cup ctx.pending, !.pending = {},
                            !.kept = @ \cup ctx.inside, !.inside = {}],
        err |-> NoError]

\* DbContext.rollbackTransaction
rollbackTransaction(ctx) ==
  IF ctx.queryRunner = "none" THEN [ctx |-> ctx, err |-> NoActiveTransaction]
  ELSE [ctx |-> [ctx EXCEPT !.queryRunner = "none", !.pending = {},
                            !.undone = @ \cup ctx.inside, !.inside = {}],
        err |-> NoError]

\* BaseRepository.save: this.repository is dataSource.getRepository(entity),
\* which writes through the data source and not through this.queryRunner
repositorySave(ctx, name) ==
  [ctx EXCEPT !.stored = @ \cup {name},
              !.inside = IF ctx.queryRunner = "started" THEN @ \cup {name} ELSE @]

\* the entities saved so far, wherever the write went
EverSaved(ctx) == ctx.stored \cup ctx.pending \cup ctx.undone \cup ctx.kept

\* a call on the context or on the repository's save leaves the query alone
QueryUntouched ==
  UNCHANGED <<queryBuilder, relationAliases, selectedColumns, selectedRelationColumns,
              calls, requested, budget, awaiting, compilation>>

BeginTransaction ==
  /\ context' = beginTransaction(context)
  /\ outcome' = Outcome("beginTransaction", Undef, NoError, Undef, <<>>)
  /\ QueryUntouched
  /\ UNCHANGED request

CommitTransaction ==
  /\ context' = commitTransaction(context).ctx
  /\ outcome' = Outcome("commitTransaction", Undef, commitTransaction(context).err, Undef, <<>>)
  /\ QueryUntouched
  /\ UNCHANGED request

RollbackTransaction ==
  /\ context' = rollbackTransaction(context).ctx
  /\ outcome' = Outcome("rollbackTransaction", Undef, rollbackTransaction(context).err, Undef, <<>>)
  /\ QueryUntouched
  /\ UNCHANGED request

\* save(entity), for an entity that was not saved before
Save(name) ==
  /\ name \notin EverSaved(context)
  /\ context' = repositorySave(context, name)
  /\ outcome' = Outcome("save", S(name), NoError, S(name), <<>>)
  /\ QueryUntouched
  /\ UNCHANGED request

\* the stored row of an entity
StoredRow(name) == O(<<KV("name", S(name))>>)

\* the row lists getMany / getOne may go through for a query without a filter
StoredRows(ctx) ==
  LET n == Cardinality(ctx.stored)
      lists == {l \in [1..n -> ctx.stored] : \A i, j \in 1..n : l[i] = l[j] => i = j}
  IN {[i \in 1..n |-> StoredRow(l[i])] : l \in lists}

\* firstOrDefault() on the stored entities
FirstOrDefaultStored ==
  \E rows \in StoredRows(context) :
    LET result == GetOne(rows)
        filteredResult == IF Truthy(result)
                          THEN filterSelectedColumns(result, selectedColumns, selectedRelationColumns).result
                          ELSE Null
    IN Terminal("firstOrDefault", NoError, filteredResult, rows)

NextTransaction ==
  \/ BeginTransaction
  \/ CommitTransaction
  \/ RollbackTransaction
  \/ \E name \in TestNames : Save(name)
  \/ FirstOrDefaultStored

SpecTransaction == Init /\ [][NextTransaction]_vars

\* the names on the rows a query went through
NamesOf(rows) == {Get(rows[i], "name").s : i \in 1..Len(rows)}

\* C23 (as the specification states it): a query after the end of a
\* transaction sees none of the entities saved between beginTransaction()
\* and rollbackTransaction(), so that firstOrDefault() returns null when only
\* such entities were saved; and it sees every entity saved between
\* beginTransaction() and commitTransaction().
C23_RollbackHides ==
  [][outcome'.op = "firstOrDefault" =>
       /\ NamesOf(outcome'.rows) \cap context.undone = {}
       /\ (EverSaved(context) # {} /\ EverSaved(context) \subseteq context.undone)
            => outcome'.value = Null
       /\ context.kept \subseteq NamesOf(outcome'.rows)
       /\ context.kept # {} => outcome'.value # Null]_vars

(***************************************************************************)
(* Terminal calls whose engine call fails                                  *)
(***************************************************************************)
\* an error of the engine's transport: the connection is gone
TransportError == [kind |-> "QueryFailedError", msg |-> "Connection terminated"]

\* a terminal call whose await on the engine rejects: the error leaves the
\* method at the await, and no statement behind the await runs
EngineFails(op) ==
  /\ outcome' = Outcome(op, Undef, TransportError, Undef, <<>>)
  /\ UNCHANGED <<queryBuilder, relationAliases, selectedColumns, selectedRelationColumns,
                 calls, requested, budget, awaiting, compilation, ambient>>

NextFailing ==
  \/ \E keySelector \in AwaitIncludes : Include(keySelector)
  \/ \E p \in AwaitWheres : Where(p)
  \/ \E selector \in AwaitSelects : Select(selector)
  \/ First
  \/ FirstOrDefault
  \/ Single
  \/ SingleOrDefault
  \/ ToList
  \/ WithCount
  \/ AnyExists
  \/ \E op \in TerminalCalls : EngineFails(op)

SpecFailing == Init /\ [][NextFailing]_vars

\* C24 (as the specification states it): when the engine call of a terminal
\* call fails, the engine's error reaches the caller as it is, and the
\* session is left without any join, filter, registry entry or projection of
\* the failed query, as after a terminal call that succeeded.
C24_ResetOnFailure ==
  [][(outcome'.op \in TerminalCalls /\ outcome'.err # NoError) =>
       /\ outcome'.err \in {TransportError, NoEntityFound, MultipleEntitiesFound}
       /\ queryBuilder'.joins = <<>>
       /\ queryBuilder'.wheres = <<>>
       /\ queryBuilder'.selects = <<>>
       /\ relationAliases' = NoMap
       /\ selectedColumns' = EmptyObj
       /\ selectedRelationColumns' = EmptyObj]_vars

(***************************************************************************)
(* The root alias across resets                                            *)
(***************************************************************************)
\* the alias the constructor gives the query builder
ConstructedAlias == ToLowerCase(EntityName)

\* C25 (as the specification states it): a reset leaves the root alias as
\* the constructor chose it, so that a query built after a terminal call or
\* an include names the aliases the same calls name on a new repository:
\* no call changes the root alias, and every alias the session derives from
\* the root alias is derived from the constructor's.
C25_RootAliasKept ==
  /\ [][queryBuilder'.alias = queryBuilder.alias]_vars
  /\ [](queryBuilder.alias = ConstructedAlias)

(***************************************************************************)
(* The relation-column tree select builds                                  *)
(***************************************************************************)
MaxTreeCalls == 2

TreeIncludes ==
  { O(<<KV("profile", O(<<KV("include", O(<<KV("image", True), KV("cover", True)>>))>>))>>),
    O(<<KV("profile", O(<<KV("include", O(<<KV("image", True)>>))>>)), KV("posts", True)>>) }

TreeSelects ==
  { O(<<KV("profile", O(<<KV("bio", True), KV("image", O(<<KV("url", True)>>))>>))>>),
    O(<<KV("profile", O(<<KV("image", O(<<KV("url", True)>>)), KV("bio", True)>>))>>),
    O(<<KV("profile", O(<<KV("image", O(<<KV("url", True)>>)),
                          KV("cover", O(<<KV("url", O(<<KV("as", S("coverUrl"))>>))>>))>>))>>),
    O(<<KV("profile", O(<<KV("image", O(<<KV("url", True)>>)),
                          KV("cover", O(<<KV("url", True)>>))>>))>>),
    O(<<KV("name", True), KV("posts", O(<<KV("title", True)>>))>>),
    O(<<KV("posts", O(<<KV("title", True)>>)), KV("name", True)>>) }

InitTree ==
  /\ queryBuilder = createQueryBuilder(ToLowerCase(EntityName))
  /\ relationAliases = NoMap
  /\ selectedColumns = EmptyObj
  /\ selectedRelationColumns = EmptyObj
  /\ outcome = Outcome("new", Undef, NoError, Undef, <<>>)
  /\ calls = 0
  /\ requested = NothingRequested
  /\ budget = MaxTreeCalls
  /\ awaiting = NotAwaiting
  /\ context = NewContext
  /\ request = NoRequest
  /\ predicate = [alias |-> ToLowerCase(EntityName), expr |-> EmptyObj]
  /\ compiled = NotCompiled

NextTree ==
  \/ \E keySelector \in TreeIncludes : Include(keySelector)
  \/ \E p \in AwaitWheres : Where(p)
  \/ \E selector \in TreeSelects : Select(selector)
  \/ ToList
  \/ FirstOrDefault

SpecTree == InitTree /\ [][NextTree]_vars

\* the keys of a selection that stand for a relation
RelationKeys(selector) ==
  {k \in KeySet(selector) : TypeOf(Get(selector, k)) = "object" /\ ~Has(Get(selector, k), "as")}

\* the tree below (and at) a level mirrors the selection at that level: its
\* relation keys are those of the selection, and each node holds the alias
\* and the path of its relation and mirrors the selection below it
RECURSIVE Mirrors(_, _, _, _)
Mirrors(tree, selector, prefix, aliases) ==
  /\ (IF prefix = "" THEN KeySet(tree) ELSE NestedRelations(tree)) = RelationKeys(selector)
  /\ \A k \in RelationKeys(selector) :
       LET path == IF prefix # "" THEN prefix \o "." \o k ELSE k
           node == Get(tree, k)
       IN /\ path \in DOMAIN aliases
          /\ Get(node, "alias") = S(aliases[path].alias)
          /\ Get(node, "path") = S(path)
          /\ Mirrors(node, Get(selector, k), path, aliases)

\* the select call is the first one of its session
FirstSelect ==
  /\ outcome'.op = "select"
  /\ outcome'.err = NoError
  /\ selectedColumns = EmptyObj
  /\ selectedRelationColumns = EmptyObj

\* C26 (as the specification states it): after a select call the
\* relation-column tree mirrors the selection: one node for every relation
\* path the selection names and no other, each with the alias and the path
\* of its relation, and below a node the nested relations asked for under
\* that relation and no other.
C26_TreeMirrorsSelection ==
  [][FirstSelect => Mirrors(selectedRelationColumns', outcome'.arg, "", relationAliases)]_vars

\* a selection with its keys in the opposite order, at every level
RECURSIVE ReverseKeys(_)
ReverseKeys(selector) ==
  IF selector.t # "object" \/ Has(selector, "as") THEN selector
  ELSE LET es == Entries(selector)
           n == Len(es)
       IN O([i \in 1..n |-> KV(es[n + 1 - i].k, ReverseKeys(es[n + 1 - i].v))])

\* what a plan holds, whatever the order of its keys: every path with the
\* value at its end
RECURSIVE Leaves(_, _)
Leaves(v, prefix) ==
  IF v.t = "object" /\ Len(Entries(v)) > 0
  THEN UNION {Leaves(Get(v, k), prefix \o "/" \o k) : k \in KeySet(v)}
  ELSE {<<prefix, v>>}

\* C27 (as the specification states it): the plan select produces is the
\* same for a selection and for the same selection with its keys in another
\* order: the same root columns, and for every relation the same columns
\* and the same nested subtree.
C27_KeyOrderFree ==
  [][FirstSelect =>
       LET other == addSelect(ReverseKeys(outcome'.arg), queryBuilder.alias, "",
                              [aliases |-> relationAliases, qb |-> queryBuilder, cols |-> selectedColumns,
                               rel |-> selectedRelationColumns, err |-> NoError])
       IN /\ other.err = NoError
          /\ Leaves(other.cols, "") = Leaves(selectedColumns', "")
          /\ Leaves(other.rel, "") = Leaves(selectedRelationColumns', "")]_vars

(***************************************************************************)
(* Predicates that hold a combinator next to other keys                    *)
(***************************************************************************)
\* the entries that stand next to a combinator: a field, a relation, the
\* other combinator
MixedCompanions(k) ==
  { KV("name", O(<<KV("$eq", S("John"))>>)),
    KV("posts", Cmp("published", "$eq", True)),
    KV(IF k = "and" THEN "$or" ELSE "$and", A(<<Cmp("name", "$ne", S("John"))>>)) }

\* {$or: [c, d], ...companion} with the combinator first or last
MixedInputs ==
  UNION {UNION {{O(<<KV("$" \o k, A(<<Comparison("$", c), Comparison("$", d)>>)), e>>),
                 O(<<e, KV("$" \o k, A(<<Comparison("$", c), Comparison("$", d)>>))>>)} :
                  c \in NestedComparisons, d \in NestedComparisons, e \in MixedCompanions(k)} :
           k \in CombinatorNames}

InitMixed ==
  /\ queryBuilder = createQueryBuilder(ToLowerCase(EntityName))
  /\ relationAliases = NoMap
  /\ selectedColumns = EmptyObj
  /\ selectedRelationColumns = EmptyObj
  /\ outcome = Outcome("new", Undef, NoError, Undef, <<>>)
  /\ calls = 0
  /\ requested = NothingRequested
  /\ budget = MaxCalls
  /\ awaiting = NotAwaiting
  /\ context = NewContext
  /\ request = NoRequest
  /\ predicate \in [alias : CompileAliases, expr : MixedInputs]
  /\ compiled = NotCompiled

SpecMixed == InitMixed /\ [][NextCompile]_vars

\* the filter of an object when every entry contributes: each entry compiled
\* on its own, one after the other, and the texts joined by AND
RECURSIVE walkEvery(_, _, _, _, _, _)
walkEvery(es, i, currentAlias, path, st, parts) ==
  IF st.err # NoError THEN st
  ELSE IF i > Len(es)
  THEN [st EXCEPT !.text = Join(SelectSeq(parts, LAMBDA p : p # ""), " AND ")]
  ELSE LET r == walk(O(<<es[i]>>), currentAlias, path, st)
       IN walkEvery(es, i + 1, currentAlias, path, r, Append(parts, r.text))

EveryEntry(expr, alias) ==
  walkEvery(Entries(expr), 1, alias, "",
            [aliases |-> NoMap, qb |-> createQueryBuilder(alias), err |-> NoError,
             params |-> NoMap, index |-> 0, text |-> ""],
            <<>>)

\* C28 (as the specification states it): every entry of a predicate object
\* contributes to the filter: for an object that holds a combinator next to
\* other keys, the filter is the conditions of all its entries joined by
\* AND, and every value they compare with is bound.
C28_EveryEntryCounts ==
  (compiled.done /\ compiled.err = NoError) =>
    /\ compiled.text = EveryEntry(predicate.expr, predicate.alias).text
    /\ DOMAIN compiled.params = DOMAIN EveryEntry(predicate.expr, predicate.alias).params

(***************************************************************************)
(* findBy / findByOrDefault                                                *)
(***************************************************************************)
MaxFindCalls == 2

FindPaths == {"name", "posts.title", "profile.image.url", "posts.tags.name"}
FindIncludes == {O(<<KV("posts", True)>>)}
FindWheres == {Cmp("name", "$eq", S("John")), In("posts", Cmp("published", "$eq", True))}

\* findByNestedProperty's loop over pathParts, from part i on: st carries the
\* query builder (qb), the alias and the entity the loop stands at, and the
\* error raised
RECURSIVE findByJoinsFrom(_, _, _, _)
findByJoinsFrom(pathParts, i, alias, st) ==
  IF st.err # NoError \/ i > Len(pathParts) - 1 THEN st
  ELSE LET part == pathParts[i]
           joinAlias == alias \o "_" \o Join(SubSeq(pathParts, 1, i), "_")
       IN IF part \notin DOMAIN Relations[st.currentMetadata]
          THEN [st EXCEPT !.err = RelationNotFound(part, st.currentMetadata,
                                                   RelationNames(st.currentMetadata))]
          ELSE findByJoinsFrom(pathParts, i + 1, alias,
                 [st EXCEPT !.qb = leftJoin(@, st.currentAlias \o "." \o part, joinAlias, FALSE),
                            !.currentAlias = joinAlias,
                            !.currentMetadata = Relations[st.currentMetadata][part]])

\* findByNestedProperty up to its getOne(): the joins and the condition it
\* puts on this.queryBuilder
findByNestedProperty(propertyPath, value, qb) ==
  LET pathParts == Split(propertyPath, ".")
      st == findByJoinsFrom(pathParts, 1, qb.alias,
                            [qb |-> qb, currentAlias |-> qb.alias, currentMetadata |-> EntityName,
                             err |-> NoError])
      condition == st.currentAlias \o "." \o pathParts[Len(pathParts)] \o " = :findByValue"
  IN IF st.err # NoError THEN st
     ELSE [st EXCEPT !.qb = qbWhere(@, condition, [k \in {"findByValue"} |-> value])]

\* the answers of getOne() for the query: a query that holds two joins under
\* one alias is refused by the database
FindAnswers(qb) ==
  IF \E i, j \in 1..Len(qb.joins) : i # j /\ qb.joins[i].alias = qb.joins[j].alias
  THEN {[err |-> EngineError(qb.alias), rows |-> <<>>]}
  ELSE {[err |-> NoError, rows |-> rows] : rows \in EngineRows(qb)}

\* findByOrDefault / findBy (raising) for a key or a dotted property path
Find(op, keySelector, value) ==
  /\ calls < budget
  /\ UNCHANGED <<budget, awaiting>>
  /\ IF \E i \in 1..Len(keySelector) : SubSeq(keySelector, i, i) = "."
     THEN LET st == findByNestedProperty(keySelector, value, queryBuilder)
          IN /\ queryBuilder' = st.qb
             /\ IF st.err # NoError
                THEN outcome' = Outcome(op, S(keySelector), st.err, Undef, <<>>)
                ELSE \E answer \in FindAnswers(st.qb) :
                       LET result == GetOne(answer.rows)
                       IN outcome' =
                            IF answer.err # NoError
                            THEN Outcome(op, S(keySelector), answer.err, Undef, <<>>)
                            ELSE IF op = "findBy" /\ ~Truthy(result)
                            THEN Outcome(op, S(keySelector), NoEntityFound, Undef, answer.rows)
                            ELSE Outcome(op, S(keySelector), NoError, result, answer.rows)
     ELSE /\ queryBuilder' = queryBuilder
          /\ \E rows \in EngineRows(createQueryBuilder(EntityName)) :
               LET result == GetOne(rows)
               IN outcome' =
                    IF op = "findBy" /\ ~Truthy(result)
                    THEN Outcome(op, S(keySelector), NoEntityFound, Undef, rows)
                    ELSE Outcome(op, S(keySelector), NoError, result, rows)
  /\ calls' = calls + 1
  /\ UNCHANGED <<relationAliases, selectedColumns, selectedRelationColumns, requested,
                 compilation, ambient>>

FindByOrDefault(keySelector, value) == Find("findByOrDefault", keySelector, value)
FindBy(keySelector, value) == Find("findBy", keySelector, value)

InitFind ==
  /\ queryBuilder = createQueryBuilder(ToLowerCase(EntityName))
  /\ relationAliases = NoMap
  /\ selectedColumns = EmptyObj
  /\ selectedRelationColumns = EmptyObj
  /\ outcome = Outcome("new", Undef, NoError, Undef, <<>>)
  /\ calls = 0
  /\ requested = NothingRequested
  /\ budget = MaxFindCalls
  /\ awaiting = NotAwaiting
  /\ context = NewContext
  /\ request = NoRequest
  /\ predicate = [alias |-> ToLowerCase(EntityName), expr |-> EmptyObj]
  /\ compiled = NotCompiled

NextFind ==
  \/ \E keySelector \in FindIncludes : Include(keySelector)
  \/ \E p \in FindWheres : Where(p)
  \/ \E keySelector \in FindPaths : FindByOrDefault(keySelector, S("x"))
  \/ \E keySelector \in FindPaths : FindBy(keySelector, S("x"))
  \/ ToList

SpecFind == InitFind /\ [][NextFind]_vars

\* a dotted property path
Dotted(keySelector) == Len(Split(keySelector, ".")) > 1

\* C29 (as the specification states it): findBy / findByOrDefault with a
\* dotted property path leaves the query of the session as it was: the same
\* joins, the same filter and parameters, the same registry, and never two
\* joins under one alias.
C29_FindLeavesSession ==
  [][(outcome'.op \in {"findBy", "findByOrDefault"} /\ Dotted(outcome'.arg.s)) =>
       /\ queryBuilder'.joins = queryBuilder.joins
       /\ queryBuilder'.wheres = queryBuilder.wheres
       /\ queryBuilder'.parameters = queryBuilder.parameters
       /\ relationAliases' = relationAliases
       /\ \A i, j \in 1..Len(queryBuilder'.joins) :
            i # j => queryBuilder'.joins[i].alias # queryBuilder'.joins[j].alias]_vars

(***************************************************************************)
(* withTransaction: the transaction around a request                       *)
(***************************************************************************)
MaxRequests == 2

\* the status codes a handler answers with
StatusCodes == {200, 404, 500}

\* cleanup(): once per request, commit below status 400 and roll back
\* otherwise, whatever that raises is logged, and dispose comes last
cleanup(req, ctx) ==
  IF req.isHandled THEN [req |-> req, ctx |-> ctx]
  ELSE LET call == IF req.statusCode < 400 THEN "commitTransaction" ELSE "rollbackTransaction"
           done == IF req.statusCode < 400 THEN commitTransaction(ctx) ELSE rollbackTransaction(ctx)
       IN [req |-> [req EXCEPT !.isHandled = TRUE, !.invoked = @ \o <<call, "dispose">>],
           ctx |-> done.ctx]

\* the frame of a step of the middleware
MiddlewareStep(op, err) ==
  /\ outcome' = Outcome(op, Undef, err, Undef, <<>>)
  /\ QueryUntouched

\* a request reaches withTransaction, with the context withDbContext made
\* for it or without one
Arrive(hasContext) ==
  /\ request.pc \in {"idle", "done"}
  /\ request.served < MaxRequests
  /\ request' = [NoRequest EXCEPT !.served = request.served + 1, !.hasContext = hasContext,
                                  !.pc = IF hasContext THEN "begin" ELSE "done"]
  /\ context' = [context EXCEPT !.queryRunner = "none", !.pending = {}, !.inside = {}]
  /\ MiddlewareStep("withTransaction", NoError)

\* await context.beginTransaction() returns: the listener is set, next() runs
BeginSucceeds ==
  /\ request.pc = "begin"
  /\ context' = beginTransaction(context)
  /\ request' = [request EXCEPT !.pc = "handling", !.begun = TRUE, !.listening = TRUE,
                                !.invoked = Append(@, "beginTransaction")]
  /\ MiddlewareStep("beginTransaction", NoError)

\* await context.beginTransaction() raises: catch runs cleanup() and next(error)
BeginFails ==
  /\ request.pc = "begin"
  /\ LET r == cleanup([request EXCEPT !.invoked = Append(@, "beginTransaction")], context)
     IN /\ request' = [r.req EXCEPT !.pc = "done"]
        /\ context' = r.ctx
  /\ MiddlewareStep("beginTransaction", TransportError)

\* the handler behind next() sets the status and sends the response
Respond(statusCode) ==
  /\ request.pc = "handling"
  /\ request' = [request EXCEPT !.pc = "responding", !.statusCode = statusCode]
  /\ UNCHANGED context
  /\ MiddlewareStep("respond", NoError)

\* the response is handed over: 'finish' fires and the listener runs cleanup()
Finish ==
  /\ request.pc = "responding"
  /\ LET r == IF request.listening THEN cleanup([request EXCEPT !.finished = TRUE], context)
              ELSE [req |-> [request EXCEPT !.finished = TRUE], ctx |-> context]
     IN /\ request' = [r.req EXCEPT !.pc = "done", !.listening = FALSE]
        /\ context' = r.ctx
  /\ MiddlewareStep("finish", NoError)

\* the client goes away before the response is handed over: 'close' fires
\* without 'finish'
Close ==
  /\ request.pc \in {"handling", "responding"}
  /\ request' = [request EXCEPT !.pc = "done"]
  /\ UNCHANGED context
  /\ MiddlewareStep("close", NoError)

\* the handler saves an entity through a repository of the context
HandlerSaves(name) ==
  /\ request.pc = "handling"
  /\ Save(name)

NextRequest ==
  \/ \E hasContext \in BOOLEAN : Arrive(hasContext)
  \/ BeginSucceeds
  \/ BeginFails
  \/ \E statusCode \in StatusCodes : Respond(statusCode)
  \/ Finish
  \/ Close
  \/ \E name \in TestNames : HandlerSaves(name)

SpecRequest == Init /\ [][NextRequest]_vars

\* how often the request has invoked a method of the context
Invoked(call) == Cardinality({i \in 1..Len(request.invoked) : request.invoked[i] = call})

\* C30 (as the specification states it): for a request withTransaction
\* handles, commitTransaction is invoked only when beginTransaction
\* succeeded and the response finished with a status below 400, and
\* rollbackTransaction otherwise; one of the two is invoked, once, and
\* dispose once, behind it.
C30_CommitOrRollbackOnce ==
  request.hasContext =>
    /\ Invoked("commitTransaction") + Invoked("rollbackTransaction") <= 1
    /\ Invoked("dispose") <= 1
    /\ Invoked("commitTransaction") = 1 =>
         request.begun /\ request.finished /\ request.statusCode < 400
    /\ request.pc = "done" =>
         /\ Invoked("commitTransaction") + Invoked("rollbackTransaction") = 1
         /\ Invoked("dispose") = 1
         /\ request.invoked[Len(request.invoked)] = "dispose"
         /\ ~(request.begun /\ request.finished /\ request.statusCode < 400)
              => Invoked("rollbackTransaction") = 1
====
